---- MODULE Spec2Model ----
(***************************************************************************)
(* Asteroids: Apocalypse (main.py).  The World, its managers and the main  *)
(* loop as a state machine: one step is one iteration of the main loop     *)
(* (clock.tick, the KEYDOWN events, World.handle_input, World.update).     *)
(*                                                                         *)
(* Representation.                                                         *)
(*  - Time is in milliseconds.  A field that holds a pygame.time.get_ticks *)
(*    stamp (respawn_timer, invuln_start_time, spawn_time, ...) is kept as *)
(*    the time elapsed since the stamp was taken, i.e. the difference      *)
(*    current_time - stamp that the code computes from it; Elapse advances *)
(*    every such field by the frame's duration, in every game state,       *)
(*    because get_ticks is the wall clock.  The difference saturates at a  *)
(*    cap that is at least every duration it is compared with.             *)
(*  - Velocities are in 1/100 pixel per frame, the fire counters in 1/100  *)
(*    frame (dt * 60 is dt_ms * 6 hundredths of a frame).                  *)
(*  - Geometry (positions, polygons) is not represented: the outcome of    *)
(*    each distance/polygon test and of each random.random() roll is an    *)
(*    input of the frame.  Bullets and asteroids are kept as counts (per   *)
(*    size class), the explosion list as "is non-empty", the ship position *)
(*    as "is at the centre (WIDTH // 2, HEIGHT // 2)".                     *)
(***************************************************************************)
EXTENDS Integers, Naturals, Sequences, FiniteSets, TLC

VARIABLES world, last

vars == <<world, last>>

\* ------------------------------------------------------------ constants
LARGE_SIZE == 54
MEDIUM_SIZE == 36
SMALL_SIZE == 18
MISSILE_LIFETIME_MS == 15000
MISSILE_REWARD == 500
\* lengths in 1/1000 pixel, speeds in 1/1000 pixel per frame, angles in 1/1000 rad
WIDTH == 1920000
HEIGHT == 1080000
MISSILE_INITIAL_SPEED == 1080
MISSILE_ACCEL == 5
MISSILE_MAX_SPEED == 4000
MISSILE_TURN_RATE == 500
Pi == 3142
TwoPi == 6283
HalfPi == 1571

thrust_amount == 18
max_speed == 990
cooldown_time == 1500
rapid_cooldown == 500
grace_time == 1500

fade_in_duration == 2000
active_duration == 11000
fade_out_duration == 2000
wave_cleared_duration == 1500
toggle_delay == 200
\* the longest life of a particle, in 1/100 frame
particle_life == 4000

DeathDelay == 2000
DeathInvuln == 5000
StartInvuln == 5000
BlackHoleInvuln == 10000
BlackHoleRapid == 10000
UFO_HEALTH == 5
UFO_REWARD == 200
START_LIVES == 3

pause_options == <<"Resume", "Restart", "Quit to Menu">>

\* an absent optional value (self.ufo = None); a present one is <<value>>
None == <<>>

\* ------------------------------------------------------------ bounds
MaxScore == 20
MaxScoreRocks == 170
MaxBullets == 1
MaxVolley == 2
MaxWave == 2
MaxEvents == 1
MaxScoreVolley == 520
MaxScoreWaves == 2600
MaxWaveNumber == 12
MaxOld == 2
MaxK == 2
MaxStored == 60

\* ------------------------------------------------------------ helpers
Min(a, b) == IF a < b THEN a ELSE b
Max(a, b) == IF a > b THEN a ELSE b

\* The element of a set of one. A chain of calls f(g(h(w))) is written
\* The({f(c) : c \in {g(b) : b \in {h(w)}}}), last call first, so that every
\* step works on the value the step before it made.
The(S) == CHOOSE x \in S : TRUE

\* a * num / den, truncated toward zero
Scale(a, num, den) == IF a >= 0 THEN (a * num) \div den ELSE -(((-a) * num) \div den)

RECURSIVE ISqrtIter(_, _, _)
ISqrtIter(n, lo, hi) ==
    IF lo >= hi THEN lo
    ELSE LET mid == (lo + hi + 1) \div 2
         IN IF mid * mid <= n THEN ISqrtIter(n, mid, hi) ELSE ISqrtIter(n, lo, mid - 1)

\* floor(math.sqrt(n)), n < 2^31
ISqrt(n) == ISqrtIter(n, 0, Min(n, 46340))

\* 1000 * cos of 0, 3, 6, ... 357 degrees (the ship turns in steps of 3)
CosTable ==
  << 1000, 999, 995, 988, 978, 966, 951, 934, 914, 891, 866, 839, 809, 777, 743,
     707, 669, 629, 588, 545, 500, 454, 407, 358, 309, 259, 208, 156, 105, 52,
     0, -52, -105, -156, -208, -259, -309, -358, -407, -454, -500, -545, -588, -629, -669,
     -707, -743, -777, -809, -839, -866, -891, -914, -934, -951, -966, -978, -988, -995, -999,
     -1000, -999, -995, -988, -978, -966, -951, -934, -914, -891, -866, -839, -809, -777, -743,
     -707, -669, -629, -588, -545, -500, -454, -407, -358, -309, -259, -208, -156, -105, -52,
     0, 52, 105, 156, 208, 259, 309, 358, 407, 454, 500, 545, 588, 629, 669,
     707, 743, 777, 809, 839, 866, 891, 914, 934, 951, 966, 978, 988, 995, 999 >>

Cos1000(angle) == CosTable[((angle % 360) \div 3) + 1]
Sin1000(angle) == Cos1000(angle + 270)

\* 10000 * friction ** (dt * 60), friction = 0.99, dt in milliseconds
Friction(dt) ==
    CASE dt = 25 -> 9850
      [] dt = 50 -> 9702
      [] dt = 100 -> 9414
      [] dt = 250 -> 8600
      [] dt = 500 -> 7397
      [] dt = 1000 -> 5471
      [] dt = 2500 -> 2214

\* the stamp-to-now difference after ms more milliseconds
Age(a, ms, cap) == Min(a + ms, cap)

RespawnCap == DeathDelay + DeathInvuln
InvulnCap == BlackHoleInvuln
RapidCap == BlackHoleRapid
BlackHoleCap == fade_in_duration + active_duration + fade_out_duration

\* ------------------------------------------------------------ Ship
ShipInit ==
    [ at_centre |-> TRUE, angle |-> 0, vel_x |-> 0, vel_y |-> 0,
      spawned |-> FALSE, invulnerable |-> FALSE,
      invuln_start_time |-> 0, invuln_duration |-> 0,
      rapid_fire |-> FALSE, rapid_fire_start_time |-> 0, rapid_fire_duration |-> 5000,
      thrusting |-> FALSE,
      respawn_delay |-> 0, respawn_timer |-> 0, pending_respawn |-> FALSE,
      respawn_invuln_duration |-> 0 ]

reset_position(s) ==
    [s EXCEPT !.at_centre = TRUE, !.vel_x = 0, !.vel_y = 0, !.angle = 0, !.thrusting = FALSE]

\* lines 178-187
trigger_respawn(s, delay_ms, invuln_duration_ms) ==
    [s EXCEPT !.spawned = FALSE,
              !.pending_respawn = TRUE,
              !.respawn_delay = delay_ms,
              !.respawn_timer = 0,
              !.respawn_invuln_duration = invuln_duration_ms,
              !.vel_x = 0, !.vel_y = 0,
              !.thrusting = FALSE]

\* keys: the set of keys reported pressed by pygame.key.get_pressed()
Ship_handle_input(s, keys) ==
    LET a1 == IF "LEFT" \in keys THEN s.angle + 3 ELSE s.angle
        a2 == IF "RIGHT" \in keys THEN a1 - 3 ELSE a1
        a  == a2 % 360
    IN IF "UP" \in keys
       THEN [s EXCEPT !.angle = a, !.thrusting = TRUE,
                      !.vel_x = s.vel_x + Scale(thrust_amount * Cos1000(a), 1, 1000),
                      !.vel_y = s.vel_y - Scale(thrust_amount * Sin1000(a), 1, 1000)]
       ELSE [s EXCEPT !.angle = a, !.thrusting = FALSE]

\* Ship_respawn without the call of reset_position (line 208)
Ship_respawn_in_place(s) ==
    IF s.pending_respawn /\ s.respawn_timer >= s.respawn_delay
    THEN [s EXCEPT !.spawned = TRUE,
                   !.invulnerable = TRUE,
                   !.invuln_start_time = 0,
                   !.invuln_duration = s.respawn_invuln_duration,
                   !.pending_respawn = FALSE]
    ELSE s

\* Ship_respawn without line 213
Ship_respawn_still_pending(s) ==
    IF s.pending_respawn /\ s.respawn_timer >= s.respawn_delay
    THEN [reset_position(s) EXCEPT !.spawned = TRUE,
                                   !.invulnerable = TRUE,
                                   !.invuln_start_time = 0,
                                   !.invuln_duration = s.respawn_invuln_duration]
    ELSE s

\* Ship_respawn without line 209
Ship_respawn_unspawned(s) ==
    IF s.pending_respawn /\ s.respawn_timer >= s.respawn_delay
    THEN [reset_position(s) EXCEPT !.invulnerable = TRUE,
                                   !.invuln_start_time = 0,
                                   !.invuln_duration = s.respawn_invuln_duration,
                                   !.pending_respawn = FALSE]
    ELSE s

\* lines 207-213: a due respawn
Ship_respawn(s) ==
    IF s.pending_respawn /\ s.respawn_timer >= s.respawn_delay
    THEN [reset_position(s) EXCEPT !.spawned = TRUE,
                                   !.invulnerable = TRUE,
                                   !.invuln_start_time = 0,
                                   !.invuln_duration = s.respawn_invuln_duration,
                                   !.pending_respawn = FALSE]
    ELSE s

\* lines 218-227: integration, clamp to max_speed, friction
Ship_move(s, dt) ==
    LET moved == s.vel_x # 0 \/ s.vel_y # 0
        sq    == s.vel_x * s.vel_x + s.vel_y * s.vel_y
        speed == ISqrt(sq)
        over  == sq > max_speed * max_speed
        cx    == IF over THEN Scale(s.vel_x, max_speed, speed + 1) ELSE s.vel_x
        cy    == IF over THEN Scale(s.vel_y, max_speed, speed + 1) ELSE s.vel_y
    IN [s EXCEPT !.at_centre = IF moved THEN FALSE ELSE s.at_centre,
                 !.vel_x = Scale(cx, Friction(dt), 10000),
                 !.vel_y = Scale(cy, Friction(dt), 10000)]

\* lines 229-232: expiry of invulnerability and rapid fire
Ship_expire(s) ==
    LET inv == IF s.invulnerable /\ s.invuln_start_time >= s.invuln_duration
               THEN FALSE ELSE s.invulnerable
        rf  == IF s.rapid_fire /\ s.rapid_fire_start_time >= s.rapid_fire_duration
               THEN FALSE ELSE s.rapid_fire
    IN [s EXCEPT !.invulnerable = inv, !.rapid_fire = rf]

Ship_update(s, dt) ==
    LET r == Ship_respawn(s)
    IN IF ~r.spawned THEN r ELSE Ship_expire(Ship_move(r, dt))

\* invuln_start_time and rapid_fire_start_time are read only under their flag
\* (lines 229, 231) and are stamped whenever the flag is set, so the
\* difference is followed only while the flag is set
Ship_elapse(s, ms) ==
    [s EXCEPT !.respawn_timer = Age(s.respawn_timer, ms, RespawnCap),
              !.invuln_start_time =
                  IF s.invulnerable THEN Age(s.invuln_start_time, ms, InvulnCap) ELSE @,
              !.rapid_fire_start_time =
                  IF s.rapid_fire THEN Age(s.rapid_fire_start_time, ms, RapidCap) ELSE @]

\* ------------------------------------------------------------ observations
\* What the latest frame did, kept for stating properties of steps inside a
\* frame: ticked = World.update ran its PLAYING branch; hits = one entry per
\* bullet-asteroid hit; deaths = one entry per ship-destroying pair, with the
\* ship flags read when the pair was evaluated; shielded = a contact input was
\* presented while the ship was not spawned or invulnerable; bh = the world
\* before and after the black-hole block when it resolved; saved =
\* save_high_score was called; respawn = the delay of the pending respawn that
\* Ship.update carried out, with played and whether the ship was at the centre
\* before.  live = the bullet list that handle_collisions works on, each
\* bullet written as the position it had when BulletManager.update rebuilt the
\* list; shots = one entry per bullets.remove(b) of handle_collisions: the
\* bullet, the pairing that removed it and whether the bullet was in the list;
\* twice = a bullet that the asteroid pairing removed was also inside the
\* missile or the UFO; fired = what shoot read when it made a bullet, and the
\* cooldown it set; session = the state and the lives a start or restart
\* found, and the world it made; launched = whether there was a UFO and how
\* many missiles when a missile was launched; waved = the wave number and
\* whether the asteroid collection was empty at line 844; moves = the changes
\* of game_state, each as <<from, to>>.  Three entries are carried from frame
\* to frame: played =
\* the time (sum of dt) of the PLAYING ticks since trigger_respawn was last
\* called with a delay; since = the PLAYING time, in 1/100 frame, since the last bullet was
\* made, followed up to cooldown_time; slow = the last bullet was made without
\* rapid fire.
EmptyLog ==
    [ ticked |-> FALSE, hits |-> <<>>, deaths |-> <<>>, shielded |-> FALSE,
      bh |-> None, saved |-> FALSE, respawn |-> None, live |-> <<>>,
      shots |-> <<>>, twice |-> FALSE, fired |-> None, session |-> None,
      launched |-> None, waved |-> None, moves |-> {}, near |-> FALSE,
      ufo |-> [born |-> None, shot |-> None], pile |-> FALSE,
      played |-> 0, since |-> cooldown_time, slow |-> FALSE ]

Strip(w) == [f \in (DOMAIN w) \ {"log"} |-> w[f]]

Logged(w, field, value) == [w EXCEPT !.log = [w.log EXCEPT ![field] = value]]

\* log.moves: a step of the frame made r of w
LogMove(w, r) ==
    IF r.game_state = w.game_state THEN r
    ELSE Logged(r, "moves", r.log.moves \cup {<<w.game_state, r.game_state>>})

\* ------------------------------------------------------------ high score file
\* The file is None when absent and <<content>> otherwise.  A content is
\* what json.load makes of it: "object" with the value stored under
\* "high_score" (None without that key), "array" for a document that is no
\* object, "invalid" for a text that is no JSON document; "unreadable" is a
\* file that open() cannot read.
Stored(n) == [json |-> "object", high_score |-> <<n>>]

\* the outcomes of a call
Return(v) == [raised |-> None, value |-> <<v>>]
Raise(e) == [raised |-> <<e>>, value |-> None]

\* lines 13-17: neither open, json.load nor .get is inside a try
load_high_score(file) ==
    IF file = None THEN Return(0)
    ELSE IF file[1].json = "unreadable" THEN Raise("OSError")
    ELSE IF file[1].json = "invalid" THEN Raise("JSONDecodeError")
    ELSE IF file[1].json # "object" THEN Raise("AttributeError")
    ELSE IF file[1].high_score = None THEN Return(0)
    ELSE Return(file[1].high_score[1])

save_high_score(w, high_score) ==
    Logged([w EXCEPT !.file = <<Stored(high_score)>>], "saved", TRUE)

\* ------------------------------------------------------------ BulletManager
\* the entry of log.fired for a bullet made in world w
Fired(w, done) ==
    [ cooldown |-> w.shoot_cooldown, grace |-> w.shoot_grace_timer,
      spawned |-> w.ship.spawned, rapid |-> w.ship.rapid_fire,
      set |-> done.shoot_cooldown, since |-> w.log.since, slow |-> w.log.slow ]

LogFired(w, done) ==
    [done EXCEPT !.log.fired = <<Fired(w, done)>>,
                 !.log.since = 0,
                 !.log.slow = ~w.ship.rapid_fire]

\* lines 528-530: the bullet is appended and the cooldown set
new_bullet(w) ==
    [w EXCEPT !.bullets = w.bullets + 1,
              !.shoot_cooldown = IF w.ship.rapid_fire THEN rapid_cooldown ELSE cooldown_time]

\* shoot without the cooldown test of line 524
shoot_any_time(w) ==
    IF w.shoot_grace_timer = 0 /\ w.ship.spawned
    THEN LogFired(w, new_bullet(w))
    ELSE w

shoot(w) ==
    IF w.shoot_cooldown = 0 /\ w.shoot_grace_timer = 0 /\ w.ship.spawned
    THEN LogFired(w, new_bullet(w))
    ELSE w

\* gone: how many bullets left [0, WIDTH] x [0, HEIGHT] in this update
BulletManager_update(w, dt, gone) ==
    [w EXCEPT !.shoot_cooldown = Max(w.shoot_cooldown - dt * 6, 0),
              !.shoot_grace_timer = Max(w.shoot_grace_timer - dt * 6, 0),
              !.bullets = w.bullets - gone,
              !.log.live = [i \in 1..(w.bullets - gone) |-> i],
              !.log.since = Min(w.log.since + dt * 6, cooldown_time)]

InSeq(x, s) == \E i \in 1..Len(s) : s[i] = x

\* the first element of s that is in S
FirstIn(s, S) == s[CHOOSE i \in 1..Len(s) : s[i] \in S /\ \A j \in 1..(i - 1) : s[j] \notin S]

\* bullets.remove(b) in one of the pairings of handle_collisions
remove_bullet(w, b, by) ==
    [w EXCEPT !.bullets = w.bullets - 1,
              !.log.live = SelectSeq(w.log.live, LAMBDA c : c # b),
              !.log.shots = Append(w.log.shots,
                                   [bullet |-> b, by |-> by, listed |-> InSeq(b, w.log.live)])]

\* ------------------------------------------------------------ ExplosionManager
spawn_explosion(w) == [w EXCEPT !.explosions = TRUE]

\* fade: every particle of every burst ran out of life in this update
ExplosionManager_update(w, fade) ==
    [w EXCEPT !.explosions = IF fade THEN FALSE ELSE w.explosions]

\* ------------------------------------------------------------ AsteroidManager
Sizes == {LARGE_SIZE, MEDIUM_SIZE, SMALL_SIZE}

NoAsteroids == [z \in Sizes |-> 0]

Count(asteroids) == asteroids[LARGE_SIZE] + asteroids[MEDIUM_SIZE] + asteroids[SMALL_SIZE]

\* start_wave with a wave factor of 1.2
start_wave_smaller(asteroids, wave_count) ==
    [asteroids EXCEPT ![LARGE_SIZE] = @ + ((3 + wave_count) * 12) \div 10]

\* int((3 + wave_count) * 1.3) Large asteroids are appended
start_wave(asteroids, wave_count) ==
    [asteroids EXCEPT ![LARGE_SIZE] = @ + ((3 + wave_count) * 13) \div 10]

\* split_asteroid with one child per split instead of the two of lines 633, 636
split_asteroid_one_child(w, size) ==
    IF size = LARGE_SIZE
    THEN [w EXCEPT !.score = w.score + 20,
                   !.asteroids = [w.asteroids EXCEPT ![MEDIUM_SIZE] = @ + 1]]
    ELSE IF size = MEDIUM_SIZE
    THEN [w EXCEPT !.score = w.score + 50,
                   !.asteroids = [w.asteroids EXCEPT ![SMALL_SIZE] = @ + 1]]
    ELSE [w EXCEPT !.score = w.score + 100]

\* lines 631-638: the score and the children of an asteroid of class size
split_asteroid(w, size) ==
    IF size = LARGE_SIZE
    THEN [w EXCEPT !.score = w.score + 20,
                   !.asteroids = [w.asteroids EXCEPT ![MEDIUM_SIZE] = @ + 2]]
    ELSE IF size = MEDIUM_SIZE
    THEN [w EXCEPT !.score = w.score + 50,
                   !.asteroids = [w.asteroids EXCEPT ![SMALL_SIZE] = @ + 2]]
    ELSE [w EXCEPT !.score = w.score + 100]

\* lines 639-640: the asteroid and the bullet b are removed
remove_pair(w, size, b) ==
    remove_bullet([w EXCEPT !.asteroids = [w.asteroids EXCEPT ![size] = @ - 1]], b, "asteroid")

\* the entry of log.hits for a hit that took world w to world done
Hit(w, done, size) ==
    [ size |-> size,
      score |-> done.score - w.score,
      bullets |-> done.bullets - w.bullets,
      large |-> done.asteroids[LARGE_SIZE] - w.asteroids[LARGE_SIZE],
      medium |-> done.asteroids[MEDIUM_SIZE] - w.asteroids[MEDIUM_SIZE],
      small |-> done.asteroids[SMALL_SIZE] - w.asteroids[SMALL_SIZE] ]

LogHit(w, done, size) == Logged(done, "hits", Append(w.log.hits, Hit(w, done, size)))

\* lines 629-640: bullet b found inside an asteroid of class size
bullet_hit(w, size, b) ==
    LogHit(w, remove_pair(split_asteroid(spawn_explosion(w), size), size, b), size)

\* lines 622-641: the loop over copy, the bullets[:] of line 622; hits[i] is
\* the size class of the asteroid the i-th bullet of copy is found inside,
\* 0 when it is inside none
RECURSIVE scan_bullets(_, _, _)
scan_bullets(w, hits, copy) ==
    IF hits = <<>> \/ copy = <<>> THEN w
    ELSE scan_bullets(
             IF Head(hits) \in Sizes /\ w.asteroids[Head(hits)] > 0
             THEN bullet_hit(w, Head(hits), Head(copy)) ELSE w,
             Tail(hits), Tail(copy))

AsteroidManager_handle_bullet_collisions(w, hits) == scan_bullets(w, hits, w.log.live)

\* overlap: some asteroid passes the distance and polygon tests against the ship
AsteroidManager_handle_ship_collision(w, overlap) ==
    IF ~w.ship.spawned \/ w.ship.invulnerable THEN FALSE
    ELSE overlap /\ Count(w.asteroids) > 0

\* ------------------------------------------------------------ MissileManager
NewMissile == [active |-> TRUE, spawn_time |-> 0]

Missile_update(m) ==
    IF ~m.active THEN m
    ELSE IF m.spawn_time >= MISSILE_LIFETIME_MS THEN [m EXCEPT !.active = FALSE]
    ELSE m

RECURSIVE KeepActive(_)
KeepActive(ms) ==
    IF ms = <<>> THEN <<>>
    ELSE IF Head(ms).active THEN <<Head(ms)>> \o KeepActive(Tail(ms)) ELSE KeepActive(Tail(ms))

MissileManager_update(w) ==
    [w EXCEPT !.missiles = KeepActive([i \in 1..Len(w.missiles) |-> Missile_update(w.missiles[i])])]

\* lines 680-688: bullet b is found inside the (first) missile
missile_shot(w, b) ==
    remove_bullet([w EXCEPT !.explosions = TRUE,
                            !.score = w.score + MISSILE_REWARD,
                            !.missiles = Tail(w.missiles)], b, "missile")

\* the loop of line 675 run over the bullet list as BulletManager.update left
\* it instead of the list that the asteroid pairing left
MissileManager_handle_bullet_collisions_stale(w, inside) ==
    IF w.missiles # <<>> /\ inside # {}
    THEN missile_shot(w, CHOOSE b \in inside : \A c \in inside : b <= c)
    ELSE w

\* inside: the bullets that pass the distance and polygon tests against the
\* (first) missile, wherever they are; the loop of line 675 meets those that
\* are in the list
MissileManager_handle_bullet_collisions(w, inside) ==
    IF w.missiles # <<>> /\ (\E i \in 1..Len(w.log.live) : w.log.live[i] \in inside)
    THEN missile_shot(w, FirstIn(w.log.live, inside))
    ELSE w

\* the entry of log.deaths for a pair evaluated in world w
Death(w, by, after) ==
    [ by |-> by, spawned |-> w.ship.spawned, invulnerable |-> w.ship.invulnerable,
      asteroids |-> Count(w.asteroids), asteroids_after |-> Count(after.asteroids) ]

LogDeath(w, by, after) == Logged(after, "deaths", Append(w.log.deaths, Death(w, by, after)))

\* lines 697-707: the missile destroys the ship
missile_hits_ship(w) ==
    [w EXCEPT !.explosions = TRUE,
              !.lives = w.lives - 1,
              !.ship = trigger_respawn(w.ship, DeathDelay, DeathInvuln),
              !.missiles = Tail(w.missiles)]

\* MissileManager_handle_ship_collision without the guard of lines 692-693
MissileManager_handle_ship_collision_unguarded(w, overlap) ==
    IF overlap /\ w.missiles # <<>>
    THEN LogDeath(w, "missile", missile_hits_ship(w))
    ELSE w

\* overlap: the (first) missile passes the distance and polygon tests against the ship
MissileManager_handle_ship_collision(w, overlap) ==
    IF ~w.ship.spawned \/ w.ship.invulnerable THEN w
    ELSE IF overlap /\ w.missiles # <<>>
    THEN LogDeath(w, "missile", missile_hits_ship(w))
    ELSE w

\* ------------------------------------------------------------ UFO, BlackHole
NewUFO == <<[health |-> UFO_HEALTH]>>

NewBlackHole == <<[spawn_time |-> 0, state |-> "fading_in"]>>

BlackHole_update(bh) ==
    IF bh.state = "fading_in"
    THEN (IF bh.spawn_time < fade_in_duration THEN bh ELSE [bh EXCEPT !.state = "active"])
    ELSE IF bh.state = "active"
    THEN (IF bh.spawn_time >= fade_in_duration + active_duration
          THEN [bh EXCEPT !.state = "fading_out"] ELSE bh)
    ELSE bh

is_active(bh) ==
    LET fade_out_start == fade_in_duration + active_duration
    IN bh.spawn_time >= 1000 /\ bh.spawn_time < fade_out_start + 1000

\* ------------------------------------------------------------ World
WorldInit(file) ==
    [ ship |-> ShipInit,
      bullets |-> 0, shoot_cooldown |-> 0, shoot_grace_timer |-> 0,
      asteroids |-> NoAsteroids,
      explosions |-> FALSE,
      missiles |-> <<>>,
      ufo |-> None,
      black_hole |-> None,
      score |-> 0, lives |-> START_LIVES, wave_count |-> 1,
      high_score |-> load_high_score(file).value[1],
      file |-> file,
      game_state |-> "MENU",
      wave_cleared |-> FALSE, wave_cleared_start_time |-> 0,
      selected_option |-> 0, toggle_cooldown |-> 0,
      log |-> EmptyLog ]

\* pygame.time.get_ticks() moves on by ms (clock.tick at the top of the loop)
Elapse(w, ms) ==
    [w EXCEPT !.ship = Ship_elapse(w.ship, ms),
              !.missiles = [i \in 1..Len(w.missiles) |->
                              [w.missiles[i] EXCEPT !.spawn_time = Age(@, ms, MISSILE_LIFETIME_MS)]],
              !.black_hole = IF w.black_hole = None THEN None
                             ELSE <<[w.black_hole[1] EXCEPT !.spawn_time = Age(@, ms, BlackHoleCap)]>>,
              !.wave_cleared_start_time =
                  IF w.wave_cleared THEN Age(@, ms, wave_cleared_duration) ELSE @,
              !.toggle_cooldown = Age(@, ms, toggle_delay)]

\* reset_game without the reset of the lives (line 808)
reset_game_keeps_lives(w) ==
    [w EXCEPT !.ship = trigger_respawn(w.ship, 0, StartInvuln),
              !.bullets = 0,
              !.asteroids = NoAsteroids,
              !.explosions = FALSE,
              !.missiles = <<>>,
              !.ufo = None,
              !.black_hole = None,
              !.score = 0,
              !.wave_count = 1]

\* lines 795-809
reset_game(w) ==
    [w EXCEPT !.ship = trigger_respawn(w.ship, 0, StartInvuln),
              !.bullets = 0,
              !.asteroids = NoAsteroids,
              !.explosions = FALSE,
              !.missiles = <<>>,
              !.ufo = None,
              !.black_hole = None,
              !.score = 0,
              !.lives = START_LIVES,
              !.wave_count = 1]

\* main, lines 1049-1052 and 1054-1057; handle_pause_selection, lines 787-790
start_session(r) ==
    [r EXCEPT !.game_state = "PLAYING",
              !.shoot_grace_timer = grace_time,
              !.asteroids = start_wave(r.asteroids, r.wave_count)]

LogSession(w, done) ==
    Logged(done, "session",
           <<[from |-> w.game_state, lives |-> w.lives, after |-> Strip(done)]>>)

new_session(w) == LogSession(w, start_session(reset_game(w)))

handle_pause_selection(w) ==
    IF pause_options[w.selected_option + 1] = "Resume" THEN [w EXCEPT !.game_state = "PLAYING"]
    ELSE IF pause_options[w.selected_option + 1] = "Restart" THEN new_session(w)
    ELSE [reset_game(w) EXCEPT !.game_state = "MENU"]

\* lines 772-779: the menu cursor
toggle_option(w, keys) ==
    IF w.toggle_cooldown >= toggle_delay
    THEN (IF "UP" \in keys
          THEN [w EXCEPT !.selected_option = (w.selected_option - 1) % Len(pause_options),
                         !.toggle_cooldown = 0]
          ELSE IF "DOWN" \in keys
          THEN [w EXCEPT !.selected_option = (w.selected_option + 1) % Len(pause_options),
                         !.toggle_cooldown = 0]
          ELSE w)
    ELSE w

\* lines 780-781
confirm_option(w, keys) ==
    IF "RETURN" \in keys \/ "SPACE" \in keys THEN handle_pause_selection(w) ELSE w

\* lines 768-770
fire(w, keys) == IF "SPACE" \in keys THEN shoot(w) ELSE w

World_handle_input(w, keys) ==
    IF w.game_state = "PLAYING"
    THEN fire([w EXCEPT !.ship = Ship_handle_input(w.ship, keys)], keys)
    ELSE IF w.game_state = "PAUSED"
    THEN confirm_option(toggle_option(w, keys), keys)
    ELSE w

\* KeyDown with a p key that pauses wherever the game is
KeyDown_pause_anywhere(w, key) ==
    IF w.game_state = "MENU" /\ key = "SPACE" THEN new_session(w)
    ELSE IF w.game_state = "GAME_OVER" /\ key = "r" THEN new_session(w)
    ELSE IF key = "p"
    THEN [w EXCEPT !.game_state = IF w.game_state = "PAUSED" THEN "PLAYING" ELSE "PAUSED",
                   !.selected_option = 0]
    ELSE w

\* main, lines 1040-1060: one KEYDOWN event
KeyDown(w, key) ==
    IF w.game_state = "MENU" /\ key = "SPACE" THEN new_session(w)
    ELSE IF w.game_state = "GAME_OVER" /\ key = "r" THEN new_session(w)
    ELSE IF w.game_state \in {"PLAYING", "PAUSED"} /\ key = "p"
    THEN [w EXCEPT !.game_state = IF w.game_state = "PLAYING" THEN "PAUSED" ELSE "PLAYING",
                   !.selected_option = 0]
    ELSE w

RECURSIVE Events(_, _)
Events(w, evs) ==
    IF evs = <<>> THEN w ELSE Events(LogMove(w, KeyDown(w, Head(evs))), Tail(evs))

ship_destroyed(w) ==
    [w EXCEPT !.explosions = TRUE,
              !.lives = w.lives - 1,
              !.ship = trigger_respawn(w.ship, DeathDelay, DeathInvuln),
              !.missiles = <<>>,
              !.ufo = None,
              !.black_hole = None]

\* handle_ship_destruction that also takes the score
handle_ship_destruction_takes_score(w, by) ==
    LogDeath(w, by, [ship_destroyed(w) EXCEPT !.score = 0])

\* lines 917-928
handle_ship_destruction(w, by) == LogDeath(w, by, ship_destroyed(w))

reset_for_new_wave(w) ==
    [w EXCEPT !.wave_count = w.wave_count + 1,
              !.ship = [trigger_respawn(w.ship, DeathDelay, DeathInvuln) EXCEPT !.rapid_fire = FALSE],
              !.bullets = 0,
              !.missiles = <<>>,
              !.explosions = FALSE,
              !.ufo = None,
              !.black_hole = None,
              !.asteroids = start_wave(w.asteroids, w.wave_count + 1),
              !.wave_cleared = TRUE,
              !.wave_cleared_start_time = 0]

\* lines 860-861
asteroid_ship(w, overlap) ==
    IF AsteroidManager_handle_ship_collision(w, overlap)
    THEN handle_ship_destruction(w, "asteroid") ELSE w

\* lines 865-866: m is the world after the missile-ship test made in world w
missile_game_over(w, m) ==
    IF m.lives < w.lives /\ m.lives <= 0 THEN [m EXCEPT !.game_state = "GAME_OVER"] ELSE m

\* lines 863-866
missile_ship(w, overlap) ==
    missile_game_over(w, MissileManager_handle_ship_collision(w, overlap))

\* log.ufo.shot: what the hit that took world w to world done found and left
LogUfoShot(w, done) ==
    [done EXCEPT !.log.ufo.shot =
        <<[ health |-> w.ufo[1].health,
            left |-> IF done.ufo = None THEN None ELSE <<done.ufo[1].health>>,
            score |-> done.score - w.score,
            bullets |-> done.bullets - w.bullets ]>>]

\* ufo_shot with a bullet that takes two of the UFO's health
ufo_shot_heavy(w, b) ==
    remove_bullet(IF w.ufo[1].health - 2 <= 0
                  THEN [w EXCEPT !.explosions = TRUE,
                                 !.score = w.score + UFO_REWARD, !.ufo = None]
                  ELSE [w EXCEPT !.explosions = TRUE,
                                 !.ufo = <<[health |-> w.ufo[1].health - 2]>>],
                  b, "ufo")

\* lines 875-886: bullet b is found inside the UFO
ufo_shot(w, b) ==
    remove_bullet(IF w.ufo[1].health - 1 <= 0
                  THEN [w EXCEPT !.explosions = TRUE,
                                 !.score = w.score + UFO_REWARD, !.ufo = None]
                  ELSE [w EXCEPT !.explosions = TRUE,
                                 !.ufo = <<[health |-> w.ufo[1].health - 1]>>],
                  b, "ufo")

\* lines 868-886: inside = the bullets that pass the tests against the UFO
ufo_bullets(w, inside) ==
    IF w.ufo # None /\ (\E i \in 1..Len(w.log.live) : w.log.live[i] \in inside)
    THEN LogUfoShot(w, ufo_shot(w, FirstIn(w.log.live, inside)))
    ELSE w

\* ufo_ship without the guard of line 888
ufo_ship_unguarded(w, overlap) ==
    IF w.ufo # None /\ overlap
    THEN handle_ship_destruction(w, "ufo") ELSE w

\* lines 888-893
ufo_ship(w, overlap) ==
    IF w.ufo # None /\ w.ship.spawned /\ ~w.ship.invulnerable /\ overlap
    THEN handle_ship_destruction(w, "ufo") ELSE w

\* log.near: the spawned ship is within UFO_DETECTION_RADIUS of the UFO when
\* line 895 is reached, as it is when the test of line 897 finds it so and
\* when the polygons of line 889 overlap
near_ufo(w, geo) ==
    IF w.ufo # None /\ w.ship.spawned /\ (geo.tractor \/ geo.ufo_ship)
    THEN Logged(w, "near", TRUE) ELSE w

\* ufo_tractor without the nudge of lines 901-902
ufo_tractor_no_nudge(w, near) ==
    IF w.ufo # None /\ w.ship.spawned /\ ~w.ship.invulnerable /\ near
    THEN [w EXCEPT !.ship = [w.ship EXCEPT !.vel_x = 0, !.vel_y = 0]]
    ELSE w

\* lines 895-903: near = the ship is within UFO_DETECTION_RADIUS of the UFO
ufo_tractor(w, near) ==
    IF w.ufo # None /\ w.ship.spawned /\ ~w.ship.invulnerable /\ near
    THEN [w EXCEPT !.ship = [w.ship EXCEPT !.vel_x = 0, !.vel_y = 0, !.at_centre = FALSE]]
    ELSE w

\* lines 906-909
black_hole_respawn(s) ==
    [trigger_respawn(s, 0, BlackHoleInvuln)
        EXCEPT !.rapid_fire = TRUE,
               !.rapid_fire_start_time = 0,
               !.rapid_fire_duration = BlackHoleRapid]

LogBlackHole(w, r) == Logged(r, "bh", <<[pre |-> Strip(w), post |-> Strip(r)]>>)

\* black_hole_ship without the clearing of the UFO (line 911)
black_hole_ship_keeps_ufo(w, overlap) ==
    IF w.black_hole # None /\ w.ship.spawned /\ overlap /\ is_active(w.black_hole[1])
    THEN LogBlackHole(w, [w EXCEPT !.ship = black_hole_respawn(w.ship),
                                   !.missiles = <<>>, !.black_hole = None])
    ELSE w

\* lines 905-915: overlap = check_collision_with_ship
black_hole_ship(w, overlap) ==
    IF w.black_hole # None /\ w.ship.spawned /\ overlap /\ is_active(w.black_hole[1])
    THEN LogBlackHole(w, [w EXCEPT !.ship = black_hole_respawn(w.ship),
                                   !.missiles = <<>>, !.ufo = None, !.black_hole = None])
    ELSE w

\* a contact test is presented while the ship is not spawned or invulnerable
shielded_contact(w, geo) ==
    IF (~w.ship.spawned \/ w.ship.invulnerable)
       /\ (geo.ast_ship \/ geo.mis_ship \/ geo.ufo_ship)
    THEN Logged(w, "shielded", TRUE) ELSE w

\* log.pile: an asteroid, a missile and the UFO are on the ship at once while
\* it is spawned and not invulnerable
piled_contact(w, geo) ==
    IF w.ship.spawned /\ ~w.ship.invulnerable
       /\ geo.ast_ship /\ geo.mis_ship /\ geo.ufo_ship
    THEN Logged(w, "pile", TRUE) ELSE w

\* a bullet that the asteroid pairing removed is inside the missile or the UFO
spent_contact(w, geo) ==
    IF \E i \in 1..Len(w.log.shots) : w.log.shots[i].bullet \in (geo.mis_hit \cup geo.ufo_hit)
    THEN Logged(w, "twice", TRUE) ELSE w

\* geo: the outcomes of the distance and polygon tests of this tick
handle_collisions(w, geo) ==
    The({black_hole_ship(j, geo.bh_ship) :
         j \in {ufo_tractor(k, geo.tractor) :
         k \in {near_ufo(i, geo) :
         i \in {ufo_ship(h, geo.ufo_ship) :
         h \in {ufo_bullets(g, geo.ufo_hit) :
         g \in {missile_ship(f, geo.mis_ship) :
         f \in {asteroid_ship(e, geo.ast_ship) :
         e \in {MissileManager_handle_bullet_collisions(d, geo.mis_hit) :
         d \in {spent_contact(c, geo) :
         c \in {AsteroidManager_handle_bullet_collisions(b, geo.hits) :
         b \in {shielded_contact(a, geo) :
         a \in {piled_contact(w, geo)}}}}}}}}}}}})

\* lines 821-823
roll_ufo(w, spawn) ==
    IF w.ufo = None /\ spawn
    THEN [w EXCEPT !.ufo = NewUFO, !.log.ufo.born = <<NewUFO[1].health>>]
    ELSE w

\* line 828: the missile is appended (log.launched: what the launch found)
spawn_missile(w) ==
    [w EXCEPT !.missiles = Append(w.missiles, NewMissile),
              !.log.launched = <<[ufo |-> w.ufo # None, missiles |-> Len(w.missiles)]>>]

\* roll_missile without the test for an active missile of lines 825-826
roll_missile_unguarded(w, launch) ==
    IF w.ufo # None /\ launch THEN spawn_missile(w) ELSE w

\* lines 824-828
roll_missile(w, launch) ==
    IF w.ufo # None /\ ({i \in 1..Len(w.missiles) : w.missiles[i].active} = {}) /\ launch
    THEN spawn_missile(w) ELSE w

\* lines 830-831
roll_black_hole(w, spawn) ==
    IF w.black_hole = None /\ spawn THEN [w EXCEPT !.black_hole = NewBlackHole] ELSE w

\* lines 834-840: u is the black hole after its update
expire_black_hole(w, u) ==
    IF u.spawn_time >= fade_in_duration + active_duration + fade_out_duration
    THEN [w EXCEPT !.black_hole = None]
    ELSE [w EXCEPT !.black_hole = <<u>>]

\* lines 832-840
update_black_hole(w) ==
    IF w.black_hole = None THEN w ELSE expire_black_hole(w, BlackHole_update(w.black_hole[1]))

\* lines 815-840: rnd = the leaving bullets, the expiring particles and the
\* three random.random() rolls of this tick
update_entities(w, dt, rnd) ==
    The({update_black_hole(g) :
         g \in {roll_black_hole(f, rnd.bh_spawn) :
         f \in {roll_missile(e, rnd.missile_fire) :
         e \in {roll_ufo(d, rnd.ufo_spawn) :
         d \in {ExplosionManager_update(c, rnd.fade) :
         c \in {MissileManager_update(b) :
         b \in {BulletManager_update(a, dt, rnd.gone) :
         a \in {[w EXCEPT !.ship = Ship_update(w.ship, dt)]}}}}}}}})

\* log.waved: the wave number and the emptiness that line 844 found
LogWave(w) ==
    Logged(w, "waved", <<[wave_count |-> w.wave_count, empty |-> Count(w.asteroids) = 0]>>)

\* wave_check with the test of line 844 passed by a last asteroid
wave_check_early(w) ==
    IF Count(w.asteroids) <= 1 THEN reset_for_new_wave(LogWave(w)) ELSE LogWave(w)

\* lines 844-845
wave_check(w) ==
    IF Count(w.asteroids) = 0 THEN reset_for_new_wave(LogWave(w)) ELSE LogWave(w)

\* lines 847-848
banner_check(w) ==
    IF w.wave_cleared /\ w.wave_cleared_start_time >= wave_cleared_duration
    THEN [w EXCEPT !.wave_cleared = FALSE] ELSE w

\* lines 852-854
record_high_score(w) ==
    IF w.score > w.high_score
    THEN save_high_score([w EXCEPT !.high_score = w.score], w.score)
    ELSE w

\* game_over_check that waits for the lives to fall below 0
game_over_check_late(w) ==
    IF w.lives < 0 /\ ~w.ship.pending_respawn
    THEN record_high_score([w EXCEPT !.game_state = "GAME_OVER"])
    ELSE w

\* lines 850-854
game_over_check(w) ==
    IF w.lives <= 0 /\ ~w.ship.pending_respawn
    THEN record_high_score([w EXCEPT !.game_state = "GAME_OVER"])
    ELSE w

\* lines 844-854
end_of_tick(w) ==
    The({game_over_check(c) : c \in {banner_check(b) : b \in {wave_check(w)}}})

\* World_update without the return of lines 812-813 in the pause menu
World_update_in_pause(w, dt, rnd, geo) ==
    IF w.game_state \notin {"PLAYING", "PAUSED"} THEN w
    ELSE The({end_of_tick(c) :
              c \in {handle_collisions(b, geo) :
              b \in {update_entities(Logged(w, "ticked", TRUE), dt, rnd)}}})

\* lines 811-854
World_update(w, dt, rnd, geo) ==
    IF w.game_state # "PLAYING" THEN w
    ELSE The({end_of_tick(c) :
              c \in {handle_collisions(b, geo) :
              b \in {update_entities(Logged(w, "ticked", TRUE), dt, rnd)}}})

\* ------------------------------------------------------------ the main loop
WithLog(w) ==
    [f \in (DOMAIN w) \cup {"log"} |->
        IF f = "log"
        THEN [EmptyLog EXCEPT !.played = last.played, !.since = last.since, !.slow = last.slow]
        ELSE w[f]]

\* trigger_respawn was called in the frame that made w
Armed(w) == w.ship.pending_respawn /\ w.ship.respawn_timer = 0

\* played before the tick of a frame of dt ms that handed h to World.update
\* and ended in W
PlayedBefore(h, dt, W) ==
    IF Armed(h) THEN 0
    ELSE IF W.log.ticked THEN Min(h.log.played + dt, RespawnCap)
    ELSE h.log.played

\* the log of that frame
FrameLog(h, dt, W) ==
    [W.log EXCEPT !.played = IF Armed(W) \/ W.ship.respawn_delay = 0
                             THEN 0 ELSE PlayedBefore(h, dt, W),
                  !.live = <<>>,
                  !.respawn = IF /\ W.log.ticked
                                 /\ h.ship.pending_respawn
                                 /\ h.ship.respawn_timer >= h.ship.respawn_delay
                              THEN <<[delay |-> h.ship.respawn_delay,
                                      played |-> PlayedBefore(h, dt, W),
                                      at_centre |-> h.ship.at_centre]>>
                              ELSE None]

NoRolls == [gone |-> 0, fade |-> FALSE, ufo_spawn |-> FALSE, missile_fire |-> FALSE, bh_spawn |-> FALSE]

NoTests ==
    [ hits |-> <<>>, mis_hit |-> {}, ast_ship |-> FALSE, mis_ship |-> FALSE,
      ufo_hit |-> {}, ufo_ship |-> FALSE, tractor |-> FALSE, bh_ship |-> FALSE ]

Flag(possible) == IF possible THEN BOOLEAN ELSE {FALSE}

\* The inputs of a tick are enumerated up to their effect: a roll or a test
\* that the code does not reach in the world at hand is left FALSE.

\* the outcomes update_entities can meet in world h; P.ufo, P.missile and P.bh
\* are the outcomes of the three spawn rolls that the environment P produces
Rolls(h, P, dt) ==
    IF h.game_state # "PLAYING" THEN {NoRolls}
    ELSE UNION { [ gone : 0..h.bullets,
                   fade : IF h.explosions /\ dt * 6 >= particle_life THEN {TRUE}
                          ELSE Flag(h.explosions),
                   ufo_spawn : {u},
                   missile_fire : IF h.ufo # None \/ u THEN P.missile ELSE {FALSE},
                   bh_spawn : IF h.black_hole = None THEN P.bh ELSE {FALSE} ]
                 : u \in (IF h.ufo = None THEN P.ufo ELSE {FALSE}) }

\* the bullets that hit an asteroid in one tick, largest target first: the
\* size classes in the order handle_bullet_collisions meets them
\* in an environment with P.aimed a bullet is only found inside an asteroid
\* of the smallest size class that is present
Aimed(P, w, y) == P.aimed => \A z \in Sizes : w.asteroids[z] > 0 => y <= z

RECURSIVE HitSeqs(_, _, _, _)
HitSeqs(n, w, top, P) ==
    IF n = 0 THEN {<<>>}
    ELSE {<<>>} \cup
         UNION { {<<z>> \o q : q \in HitSeqs(n - 1, bullet_hit(w, z, Head(w.log.live)), z, P)}
                 : z \in {y \in Sizes : y <= top /\ w.asteroids[y] > 0 /\ Aimed(P, w, y)} }

\* the sets of bullets that a target, when there is one, can be found to
\* hold: none, the first bullet of the list and, in an environment with
\* P.overlap, the bullet that an earlier pairing removed first
Inside(w, possible, P) ==
    IF ~possible THEN {{}}
    ELSE LET first == IF w.log.live = <<>> THEN {} ELSE {Head(w.log.live)}
             spent == IF P.overlap /\ w.log.shots # <<>> THEN {w.log.shots[1].bullet} ELSE {}
         IN {{}, first, spent, first \cup spent}

\* a contact test of the vulnerable ship: P.deadly are its outcomes in P
Touch(possible, P) == IF possible THEN P.deadly ELSE {FALSE}

\* P.swallow: the outcomes of check_collision_with_ship in P
TestsH(w, g, P) ==
    {[g EXCEPT !.bh_ship = x] :
        x \in IF w.black_hole # None /\ w.ship.spawned /\ is_active(w.black_hole[1])
              THEN P.swallow ELSE {FALSE}}

TestsG(w, g, P) ==
    UNION { TestsH(v, [g EXCEPT !.tractor = x], P)
            : <<x, v>> \in {<<y, ufo_tractor(w, y)>> :
                  y \in Flag(w.ufo # None /\ w.ship.spawned /\ ~w.ship.invulnerable)} }

TestsF(w, g, c, P) ==
    UNION { TestsG(v, [g EXCEPT !.ufo_ship = x], P)
            : <<x, v>> \in {<<y, ufo_ship(w, y)>> :
                  y \in IF c THEN {TRUE}
                        ELSE Touch(w.ufo # None /\ w.ship.spawned /\ ~w.ship.invulnerable, P)} }

TestsE(w, g, c, P) ==
    UNION { TestsF(v, [g EXCEPT !.ufo_hit = x], c, P)
            : <<x, v>> \in {<<y, ufo_bullets(w, y)>> : y \in Inside(w, w.ufo # None, P)} }

TestsD(w, g, c, P) ==
    UNION { TestsE(v, [g EXCEPT !.mis_ship = x], c, P)
            : <<x, v>> \in {<<y, missile_ship(w, y)>> :
                  y \in IF c THEN {TRUE}
                        ELSE Touch(w.missiles # <<>> /\ w.ship.spawned /\ ~w.ship.invulnerable, P)} }

TestsC(w, g, c, P) ==
    UNION { TestsD(v, [g EXCEPT !.ast_ship = x], c, P)
            : <<x, v>> \in {<<y, asteroid_ship(w, y)>> :
                  y \in IF c /\ (~w.ship.spawned \/ w.ship.invulnerable) THEN {TRUE}
                        ELSE Touch(Count(w.asteroids) > 0 /\ w.ship.spawned /\ ~w.ship.invulnerable, P)} }

TestsB(w, g, c, P) ==
    UNION { TestsC(v, [g EXCEPT !.mis_hit = x], c, P)
            : <<x, v>> \in {<<y, MissileManager_handle_bullet_collisions(w, y)>> :
                  y \in Inside(w, w.missiles # <<>>, P)} }

\* the outcomes handle_collisions can meet in world b (entities updated); c:
\* the ship, not spawned or invulnerable, touches an asteroid, missile or UFO
\* (P.shielded: whether the environment P produces such a contact), or the
\* missile and the UFO are both on the ship that an asteroid can destroy
Tests(b, P) ==
    IF b.game_state # "PLAYING" THEN {NoTests}
    ELSE UNION { TestsB(v, [NoTests EXCEPT !.hits = hs], c, P)
                 : <<hs, v>> \in {<<q, AsteroidManager_handle_bullet_collisions(b, q)>> :
                       q \in HitSeqs(b.bullets, b, LARGE_SIZE, P)},
                   c \in IF b.ship.spawned /\ ~b.ship.invulnerable
                         THEN (IF b.missiles # <<>> /\ b.ufo # None
                               THEN P.deadly \cup {FALSE} ELSE {FALSE})
                         ELSE P.shielded }

\* the keys of a pressed set that handle_input reads in world e
KeysRead(e, keys) ==
    IF e.game_state = "PLAYING" THEN keys \cap {"LEFT", "RIGHT", "UP", "SPACE"}
    ELSE IF e.game_state = "PAUSED" THEN keys \cap {"UP", "DOWN", "RETURN", "SPACE"}
    ELSE {}

Commit(P, h, dt, W) ==
    /\ W.score <= P.max_score
    /\ W.wave_count <= MaxWave
    /\ world' = Strip(W)
    /\ last' = FrameLog(h, dt, W)

\* lines 1063-1065: update(dt) on the world b that update_entities makes of h
Updated(P, h, dt, rnd, b) ==
    \E geo \in Tests(b, P) : \E W \in {LogMove(h, World_update(h, dt, rnd, geo))} : Commit(P, h, dt, W)

\* the world h that handle_input left
Handled(P, h, dt) ==
    /\ h.bullets <= P.max_bullets
    /\ \E rnd \in Rolls(h, P, dt) : \E b \in {update_entities(h, dt, rnd)} : Updated(P, h, dt, rnd, b)

\* line 1062: handle_input(keys) in the world e that the events left
Polled(P, e, dt) ==
    \E keys \in {KeysRead(e, k) : k \in IF e.game_state = "PAUSED" THEN P.menu_keys ELSE P.keys} :
        \E h \in {LogMove(e, World_handle_input(e, keys))} : Handled(P, h, dt)

\* One iteration of the while loop of main (lines 1035-1065): clock.tick, the
\* KEYDOWN events evs in order, handle_input(keys), update(dt).
Frame(P, evs) ==
    \E dt \in P.dts : \E e \in {Events(Elapse(WithLog(world), dt), evs)} : Polled(P, e, dt)

RECURSIVE SeqsUpTo(_, _)
SeqsUpTo(S, n) ==
    IF n = 0 THEN {<<>>}
    ELSE LET shorter == SeqsUpTo(S, n - 1)
         IN shorter \cup {<<x>> \o q : x \in S, q \in shorter}

EventKeys == {"SPACE", "r", "p"}

\* a frame whose first KEYDOWN event is key, taken by one of the branches of
\* lines 1046-1060 (any other key leaves the frame as it is without the event)
KeyFrame(P, key) ==
    /\ Strip(KeyDown(WithLog(world), key)) # world
    /\ \E rest \in SeqsUpTo(EventKeys, MaxEvents - 1) : Frame(P, <<key>> \o rest)

\* World() is constructed when load_high_score returns
InitFiles == {None, <<Stored(20)>>}

Init ==
    /\ \E file \in InitFiles : world = Strip(WorldInit(file))
    /\ last = EmptyLog

\* An environment P fixes the inputs the frames draw from: the frame
\* durations, the pressed key sets (menu_keys: in the pause menu), the
\* outcomes of the spawn rolls, of the ship contact tests (deadly, shielded)
\* and of the black hole's test (swallow), whether a bullet can be inside two
\* targets (overlap) and finds the smallest asteroid (aimed), and the caps on
\* score and bullets in flight.

\* ------------------------------------------------------------ Spec: sessions
\* Start, pause menu, restart; the ship dies on asteroids; no shooting.
Game ==
    [ dts |-> {500, 1000},
      keys |-> {{}, {"DOWN"}, {"RETURN"}}, menu_keys |-> {{}, {"DOWN"}, {"RETURN"}},
      ufo |-> {FALSE}, missile |-> {FALSE}, bh |-> {FALSE},
      shielded |-> {FALSE}, deadly |-> BOOLEAN,
      max_score |-> 0, max_bullets |-> 0,
      overlap |-> FALSE, aimed |-> FALSE, swallow |-> BOOLEAN ]

Idle == Frame(Game, <<>>)
PressSpace == KeyFrame(Game, "SPACE")
PressR == KeyFrame(Game, "r")
PressP == KeyFrame(Game, "p")

Next == Idle \/ PressSpace \/ PressR \/ PressP

Spec == Init /\ [][Next]_vars

\* ------------------------------------------------------------ SpecRespawn
\* Deaths and respawns with frames of uneven length, the UFO's tractor beam,
\* and the p key.
Respawns ==
    [ dts |-> {500, 1000},
      keys |-> {{}}, menu_keys |-> {{}},
      ufo |-> BOOLEAN, missile |-> {FALSE}, bh |-> {FALSE},
      shielded |-> {FALSE}, deadly |-> BOOLEAN,
      max_score |-> 0, max_bullets |-> 0,
      overlap |-> FALSE, aimed |-> FALSE, swallow |-> BOOLEAN ]

RespawnTick == Frame(Respawns, <<>>)
RespawnStart == KeyFrame(Respawns, "SPACE")
RespawnPause == KeyFrame(Respawns, "p")

NextRespawn == RespawnTick \/ RespawnStart \/ RespawnPause

SpecRespawn == Init /\ [][NextRespawn]_vars

\* ------------------------------------------------------------ SpecRocks
\* Shooting asteroids: up to MaxVolley bullets in flight, no ship contact.
Rocks ==
    [ dts |-> {1000},
      keys |-> {{}, {"SPACE"}}, menu_keys |-> {{}, {"SPACE"}},
      ufo |-> {FALSE}, missile |-> {FALSE}, bh |-> {FALSE},
      shielded |-> {FALSE}, deadly |-> {FALSE},
      max_score |-> MaxScoreRocks, max_bullets |-> MaxVolley,
      overlap |-> FALSE, aimed |-> FALSE, swallow |-> BOOLEAN ]

RocksTick == Frame(Rocks, <<>>)
RocksStart == KeyFrame(Rocks, "SPACE")

NextRocks == RocksTick \/ RocksStart

SpecRocks == Init /\ [][NextRocks]_vars

\* ------------------------------------------------------------ SpecDuel
\* UFO, missiles and asteroids against the ship, down to the last life.
Duel ==
    [ dts |-> {2500},
      keys |-> {{}, {"SPACE"}}, menu_keys |-> {{}, {"SPACE"}},
      ufo |-> BOOLEAN, missile |-> BOOLEAN, bh |-> {FALSE},
      shielded |-> BOOLEAN, deadly |-> BOOLEAN,
      max_score |-> MaxScore, max_bullets |-> MaxBullets,
      overlap |-> FALSE, aimed |-> FALSE, swallow |-> BOOLEAN ]

DuelTick == Frame(Duel, <<>>)
DuelStart == KeyFrame(Duel, "SPACE")
DuelRestart == KeyFrame(Duel, "r")

NextDuel == DuelTick \/ DuelStart \/ DuelRestart

SpecDuel == Init /\ [][NextDuel]_vars

\* ------------------------------------------------------------ SpecShip
\* Thrust held at 40 frames a second; the ship dies on asteroids.
Flight ==
    [ dts |-> {25},
      keys |-> {{"UP"}}, menu_keys |-> {{"UP"}},
      ufo |-> {FALSE}, missile |-> {FALSE}, bh |-> {FALSE},
      shielded |-> {FALSE}, deadly |-> BOOLEAN,
      max_score |-> 0, max_bullets |-> 0,
      overlap |-> FALSE, aimed |-> FALSE, swallow |-> BOOLEAN ]

ShipTick == Frame(Flight, <<>>)
ShipStart == KeyFrame(Flight, "SPACE")

NextShip == ShipTick \/ ShipStart

SpecShip == Init /\ [][NextShip]_vars

\* ------------------------------------------------------------ SpecHole
\* Black holes, with a UFO and its missile around; no ship contact.
Hole ==
    [ dts |-> {1000},
      keys |-> {{}}, menu_keys |-> {{}},
      ufo |-> BOOLEAN, missile |-> BOOLEAN, bh |-> BOOLEAN,
      shielded |-> {FALSE}, deadly |-> {FALSE},
      max_score |-> 0, max_bullets |-> 0,
      overlap |-> FALSE, aimed |-> FALSE, swallow |-> BOOLEAN ]

HoleTick == Frame(Hole, <<>>)
HoleStart == KeyFrame(Hole, "SPACE")

NextHole == HoleTick \/ HoleStart

SpecHole == Init /\ [][NextHole]_vars

\* ------------------------------------------------------------ SpecFire
\* The fire button at 10 frames a second, released in the pause
\* menu; a black hole appears whenever there is none and takes the ship as
\* soon as it can, which gives rapid fire; the bullets hit nothing; the
\* player pauses only without rapid fire.
Fire ==
    [ dts |-> {100},
      keys |-> {{}, {"SPACE"}}, menu_keys |-> {{}},
      ufo |-> {FALSE}, missile |-> {FALSE}, bh |-> {TRUE},
      shielded |-> {FALSE}, deadly |-> {FALSE},
      max_score |-> 0, max_bullets |-> MaxBullets,
      overlap |-> FALSE, aimed |-> FALSE, swallow |-> {TRUE} ]

FireTick == Frame(Fire, <<>>)
FireStart == KeyFrame(Fire, "SPACE")
FirePause == ~world.ship.rapid_fire /\ KeyFrame(Fire, "p")

NextFire == FireTick \/ FireStart \/ FirePause

SpecFire == Init /\ [][NextFire]_vars

\* ------------------------------------------------------------ SpecWaves
\* A whole wave shot down with the fire button held, smallest asteroid
\* first, and the next one begun; the ship dies on asteroids and a black hole
\* appears whenever there is none.
Waves ==
    [ dts |-> {1000},
      keys |-> {{"SPACE"}}, menu_keys |-> {{"SPACE"}},
      ufo |-> {FALSE}, missile |-> {FALSE}, bh |-> {TRUE},
      shielded |-> {FALSE}, deadly |-> BOOLEAN,
      max_score |-> MaxScoreWaves, max_bullets |-> MaxBullets,
      overlap |-> FALSE, aimed |-> TRUE, swallow |-> BOOLEAN ]

WavesTick == Frame(Waves, <<>>)
WavesStart == KeyFrame(Waves, "SPACE")

NextWaves == WavesTick \/ WavesStart

SpecWaves == Init /\ [][NextWaves]_vars

\* the while loop of main keeps running: once the lives are used up, a frame
\* that can change the state is taken sooner or later
WavesLastTicks == world.lives <= 0 /\ WavesTick

SpecWavesFair == SpecWaves /\ WF_vars(WavesLastTicks)

\* ------------------------------------------------------------ SpecVolley
\* The fire button held, two bullets in flight among asteroids, a UFO and its missile, which appear
\* as soon as they can; a bullet can be inside two targets at once, and of the
\* asteroids it finds the smallest.
Volley ==
    [ dts |-> {2500},
      keys |-> {{"SPACE"}}, menu_keys |-> {{}},
      ufo |-> {TRUE}, missile |-> {TRUE}, bh |-> {FALSE},
      shielded |-> {FALSE}, deadly |-> {FALSE},
      max_score |-> MaxScoreVolley, max_bullets |-> MaxVolley,
      overlap |-> TRUE, aimed |-> TRUE, swallow |-> BOOLEAN ]

VolleyTick == Frame(Volley, <<>>)
VolleyStart == KeyFrame(Volley, "SPACE")

NextVolley == VolleyTick \/ VolleyStart

SpecVolley == Init /\ [][NextVolley]_vars


\* ------------------------------------------------------------ SpecStartWave
\* AsteroidManager.start_wave on its own: any asteroid list (up to MaxOld of
\* each size) and any wave number up to MaxWaveNumber; last is the input once
\* the call is made.
StartWaveInit ==
    /\ world \in [asteroids : [Sizes -> 0..MaxOld], wave_count : 1..MaxWaveNumber]
    /\ last = None

StartWaveCall ==
    /\ last = None
    /\ world' = [world EXCEPT !.asteroids = start_wave(world.asteroids, world.wave_count)]
    /\ last' = <<world>>

SpecStartWave == StartWaveInit /\ [][StartWaveCall]_vars


\* ------------------------------------------------------------ SpecMissile
\* Missile.update (lines 281-317) with the heading, the speed and the position
\* of the missile.  dt is in ms, so dt * 60 of the code is dt * 60 / 1000.

\* math.sin and math.cos in 1/1000, by Bhaskara's formula on 1/100 rad
SinHalf(x) ==
    (16000 * ((x \div 10) * ((Pi - x) \div 10)))
        \div (5 * 314 * 314 - 4 * ((x \div 10) * ((Pi - x) \div 10)))

SinRad(a) == IF a % TwoPi <= Pi THEN SinHalf(a % TwoPi) ELSE -SinHalf((a % TwoPi) - Pi)

CosRad(a) == SinRad(a + HalfPi)

\* math.atan2(dy, dx) for a vector along an axis or a diagonal; (0, 0) gives 0
Atan2(dy, dx) ==
    IF dy = 0 THEN (IF dx >= 0 THEN 0 ELSE Pi)
    ELSE IF dx = 0 THEN (IF dy > 0 THEN HalfPi ELSE -HalfPi)
    ELSE IF dx > 0 THEN (IF dy > 0 THEN HalfPi \div 2 ELSE -(HalfPi \div 2))
    ELSE (IF dy > 0 THEN Pi - HalfPi \div 2 ELSE -(Pi - HalfPi \div 2))

\* lines 292-298: margin = 2 * speed / MISSILE_TURN_RATE
avoidance_x(m) ==
    (IF m.x < Scale(2 * m.speed, 1000, MISSILE_TURN_RATE) THEN 1 ELSE 0)
    - (IF m.x > WIDTH - Scale(2 * m.speed, 1000, MISSILE_TURN_RATE) THEN 1 ELSE 0)

avoidance_y(m) ==
    (IF m.y < Scale(2 * m.speed, 1000, MISSILE_TURN_RATE) THEN 1 ELSE 0)
    - (IF m.y > HEIGHT - Scale(2 * m.speed, 1000, MISSILE_TURN_RATE) THEN 1 ELSE 0)

\* lines 300-308
desired_angle(m, ship) ==
    IF avoidance_x(m) # 0 \/ avoidance_y(m) # 0
    THEN Atan2(avoidance_y(m), avoidance_x(m))
    ELSE Atan2(ship.y - m.y, ship.x - m.x)

\* line 309
angle_diff(m, ship) == ((desired_angle(m, ship) - m.angle + Pi) % TwoPi) - Pi

\* MISSILE_TURN_RATE * dt * 60
TurnLimit(dt) == (MISSILE_TURN_RATE * dt * 60) \div 1000

\* line 310
clamped(d, dt) == Max(Min(d, TurnLimit(dt)), -TurnLimit(dt))

\* lines 313-317, on the missile that has turned
advance(m, dt) ==
    [m EXCEPT !.x = Max(0, Min(m.x + Scale(Scale(m.speed, dt * 6, 100), CosRad(m.angle), 1000), WIDTH)),
              !.y = Max(0, Min(m.y + Scale(Scale(m.speed, dt * 6, 100), SinRad(m.angle), 1000), HEIGHT))]

\* lines 311-313
turn(m, d, dt) ==
    [m EXCEPT !.angle = m.angle + d,
              !.speed = Min(m.speed + (MISSILE_ACCEL * dt * 60) \div 1000, MISSILE_MAX_SPEED)]

\* Missile_steer that snaps to the desired angle (no line 310)
Missile_steer_snap(m, ship, dt) ==
    IF ~m.active THEN m
    ELSE IF m.spawn_time >= MISSILE_LIFETIME_MS THEN [m EXCEPT !.active = FALSE]
    ELSE advance(turn(m, angle_diff(m, ship), dt), dt)

\* Missile.update, lines 281-317
Missile_steer(m, ship, dt) ==
    IF ~m.active THEN m
    ELSE IF m.spawn_time >= MISSILE_LIFETIME_MS THEN [m EXCEPT !.active = FALSE]
    ELSE advance(turn(m, clamped(angle_diff(m, ship), dt), dt), dt)

MissileAngles == {-7000, -3142, -1000, 0, 400, 1571, 3000, 3142, 9000}
MissileXs == {0, 5000, 960000, 1915000, 1920000}
MissileYs == {0, 540000, 1075000}
MissileDts == {0, 17, 50, 100, 250}
Offsets == {-400000, 0, 400000}

Missiles ==
    [ active : BOOLEAN, spawn_time : {0, MISSILE_LIFETIME_MS - 1, MISSILE_LIFETIME_MS},
      angle : MissileAngles, speed : {MISSILE_INITIAL_SPEED, MISSILE_MAX_SPEED},
      x : MissileXs, y : MissileYs ]

\* a missile, the ship it follows (on the missile's row, column or diagonal)
\* and the dt of the call; last is the input once the call is made
MissileInit ==
    /\ \E m \in Missiles, ox \in Offsets, oy \in Offsets, dt \in MissileDts :
          /\ m.x + ox \in 0..WIDTH
          /\ m.y + oy \in 0..HEIGHT
          /\ world = [missile |-> m, ship |-> [x |-> m.x + ox, y |-> m.y + oy], dt |-> dt]
    /\ last = None

MissileCall ==
    /\ last = None
    /\ world' = [world EXCEPT !.missile = Missile_steer(world.missile, world.ship, world.dt)]
    /\ last' = <<world>>

SpecMissile == MissileInit /\ [][MissileCall]_vars

\* ------------------------------------------------------------ SpecWrap
\* wrap_position on its own: whole-pixel coordinates on both sides of every
\* edge, and the same point moved by k screens; last is the input once the
\* call is made.

\* wrap_position with a remainder that keeps the sign of the coordinate
wrap_position_truncated(x, y) ==
    << IF x >= 0 THEN x % WIDTH ELSE -((-x) % WIDTH),
       IF y >= 0 THEN y % HEIGHT ELSE -((-y) % HEIGHT) >>

\* lines 129-130
wrap_position(x, y) == <<x % WIDTH, y % HEIGHT>>

WrapInit ==
    /\ world \in [ x : {-1921000, -1920000, -7000, -1000, 0, 1000, 1919000, 1920000, 4000000},
                   y : {-1081000, -1080000, -1000, 0, 1079000, 1080000, 2500000},
                   k : (-MaxK)..MaxK ]
    /\ last = None

WrapCall ==
    /\ last = None
    /\ world' = [ here |-> wrap_position(world.x, world.y),
                  there |-> wrap_position(world.x + world.k * WIDTH,
                                          world.y + world.k * HEIGHT) ]
    /\ last' = <<world>>

SpecWrap == WrapInit /\ [][WrapCall]_vars

\* ------------------------------------------------------------ SpecLoad
\* load_high_score on its own: no file, a file with a stored value, and
\* files that hold something else; last is the file once the call is made.
LoadInit ==
    /\ world \in ({None} \cup {<<Stored(n)>> : n \in 0..MaxStored}
                  \cup {<<[json |-> j, high_score |-> None]>> :
                           j \in {"object", "array", "invalid", "unreadable"}})
    /\ last = None

LoadCall ==
    /\ last = None
    /\ world' = load_high_score(world)
    /\ last' = <<world>>

SpecLoad == LoadInit /\ [][LoadCall]_vars

\* ------------------------------------------------------------ SpecPlane
\* Where the entities are: the position updates of one PLAYING tick (lines
\* 811-854 and 895-915) on a world that holds positions only.  The
\* velocities, headings and random draws of a tick are its inputs: d.ship,
\* d.rock, d.hole and d.shot are vel * dt * 60 of the ship, the asteroids, the
\* black hole and the missiles, d.ufo is base_speed * (cos, sin) * dt * 60.

UFO_DETECTION_RADIUS == 225000
pull_speed == 90
min_dist == 180000

\* every point within 9 px of the ship's centre is inside the triangle of
\* lines 259-268, and the UFO's own centre is a corner of its polygon (line
\* 439): polygons_collide cannot separate them when the centres are closer
ShipCore == 9000

MaxPlaneTicks == 2
MaxRocks == 2

\* math.sqrt(dx**2 + dy**2), to 1/10 px beyond 30 px
Hypot(dx, dy) ==
    IF dx < 30000 /\ dx > -30000 /\ dy < 30000 /\ dy > -30000
    THEN ISqrt(dx * dx + dy * dy)
    ELSE 100 * ISqrt((dx \div 100) * (dx \div 100) + (dy \div 100) * (dy \div 100))

At(x, y) == [x |-> x, y |-> y]

Wrapped(p, d) == At(wrap_position(p.x + d[1], p.y + d[2])[1], wrap_position(p.x + d[1], p.y + d[2])[2])

\* lines 316-317
Clamped(p, d) == At(Max(0, Min(p.x + d[1], WIDTH)), Max(0, Min(p.y + d[2], HEIGHT)))

\* lines 207-227: a due respawn puts the ship on the centre; the spawned ship
\* moves and wraps
Plane_ship(w, d, due) ==
    IF ~w.ship.spawned /\ due
    THEN [w EXCEPT !.ship = [x |-> WIDTH \div 2, y |-> HEIGHT \div 2,
                             spawned |-> TRUE, invulnerable |-> TRUE]]
    ELSE IF w.ship.spawned
    THEN [w EXCEPT !.ship.x = Wrapped(w.ship, d).x, !.ship.y = Wrapped(w.ship, d).y,
                   !.ship.invulnerable = w.ship.invulnerable /\ ~due]
    ELSE w

\* lines 607-609
Plane_rocks(w, d) == [w EXCEPT !.asteroids = {Wrapped(a, d) : a \in w.asteroids}]

\* lines 313-317
Plane_shots(w, d) == [w EXCEPT !.missiles = {Clamped(m, d) : m \in w.missiles}]

\* lines 721-726: t is the draw of random.randint along the chosen side
spawn_ufo_on_edge(side, t) ==
    IF side = "left" THEN At(0, t[2])
    ELSE IF side = "right" THEN At(WIDTH, t[2])
    ELSE IF side = "top" THEN At(t[1], 0)
    ELSE At(t[1], HEIGHT)

\* lines 821-828: the UFO appears, moves and fires
Plane_ufo(w, d, side, t, fires) ==
    IF w.ufo = None /\ side = "none" THEN w
    ELSE LET u == Wrapped(IF w.ufo = None THEN spawn_ufo_on_edge(side, t) ELSE w.ufo[1], d)
         IN [w EXCEPT !.ufo = <<u>>,
                      !.missiles = IF w.missiles = {} /\ fires THEN {u} ELSE w.missiles]

\* lines 830-832 and 443-445, 483-485: the black hole appears and drifts
Plane_hole(w, d, born, t) ==
    IF w.black_hole = None /\ ~born THEN w
    ELSE [w EXCEPT !.black_hole =
             <<Wrapped(IF w.black_hole = None THEN At(t[1], t[2]) ELSE w.black_hole[1], d)>>]

\* lines 888-893 (and 856-866): the vulnerable ship is destroyed
Plane_contact(w, touch) ==
    IF w.ship.spawned /\ ~w.ship.invulnerable /\ touch
    THEN [w EXCEPT !.ship.spawned = FALSE] ELSE w

\* lines 895-903: cos and sin of atan2(dy, dx) are dx / dist and dy / dist
\* (1 and 0 at distance 0); line 903 wraps x and leaves ship.y as it is
Plane_tractor(w) ==
    IF w.ufo # None /\ w.ship.spawned /\ ~w.ship.invulnerable
    THEN LET dx == w.ufo[1].x - w.ship.x
             dy == w.ufo[1].y - w.ship.y
             dist == Hypot(dx, dy)
         IN IF dist < UFO_DETECTION_RADIUS
            THEN [w EXCEPT !.ship.x = wrap_position(
                                 w.ship.x + (IF dist = 0 THEN pull_speed
                                             ELSE Scale(dx, pull_speed, dist)),
                                 w.ship.y)[1],
                           !.ship.y = w.ship.y + (IF dist = 0 THEN 0
                                                  ELSE Scale(dy, pull_speed, dist))]
            ELSE w
    ELSE w

\* lines 905-915
Plane_swallow(w, overlap) ==
    IF w.black_hole # None /\ w.ship.spawned /\ overlap
    THEN [w EXCEPT !.ship.spawned = FALSE, !.missiles = {}, !.ufo = None, !.black_hole = None]
    ELSE w

\* lines 857-858: the bullets destroy the asteroids that are left
Plane_bullets(w, cleared) == IF cleared THEN [w EXCEPT !.asteroids = {}] ELSE w

\* lines 844-845 and 930-944: S are the places that random.randint gave the
\* asteroids of the new wave, each farther than min_dist from the ship
Plane_wave(w, S) ==
    IF w.asteroids = {}
    THEN [w EXCEPT !.ship.spawned = FALSE, !.missiles = {}, !.ufo = None,
                   !.black_hole = None, !.asteroids = S]
    ELSE w

\* the draws of random.randint(0, WIDTH) and random.randint(0, HEIGHT)
PlaneDraws == {<<0, 0>>, <<700000, HEIGHT>>, <<WIDTH, 300000>>}

\* vel * dt * 60 of the ship, the asteroids, the missiles and the black hole
\* and base_speed * (cos, sin) * dt * 60 of the UFO, dt * 60 = 3
PlaneMoves ==
    [ ship : {<<0, 0>>, <<9900, 9900>>}, rock : {<<5400, -5400>>},
      shot : {<<12000, 12000>>}, ufo : {<<3000, 0>>, <<0, -3000>>},
      hole : {<<270, 0>>} ]

\* the ship on the centre and the ship beside the corner
PlaneShip ==
    {[x |-> p[1], y |-> p[2], spawned |-> f[1], invulnerable |-> f[2]] :
        p \in {<<WIDTH \div 2, HEIGHT \div 2>>, <<WIDTH - 1000, HEIGHT - 500>>},
        f \in {<<TRUE, TRUE>>, <<TRUE, FALSE>>, <<FALSE, FALSE>>}}

\* the sets of at most n elements of S
UpTo(S, n) == {T \in SUBSET S : Cardinality(T) <= n}

\* a tick begins with asteroids of the wave
PlaneInit ==
    /\ \E s \in PlaneShip, u \in {None, <<At(WIDTH - 140000, HEIGHT - 1000)>>},
          rocks \in UpTo({At(WIDTH - 5000, 0), At(0, HEIGHT - 5000)}, MaxRocks) \ {{}} :
          world = [ ship |-> s, asteroids |-> rocks, ufo |-> u, black_hole |-> None,
                    missiles |-> {} ]
    /\ last = None

Ticks == IF last = None THEN 0 ELSE last[1].ticks

\* the polygon test of line 889 in world b: the UFO on top of the ship
\* touches it
PlaneTouch(b) ==
    IF ~b.ship.spawned \/ b.ship.invulnerable THEN {FALSE}
    ELSE IF b.ufo # None
            /\ Hypot(b.ufo[1].x - b.ship.x, b.ufo[1].y - b.ship.y) < ShipCore THEN {TRUE}
    ELSE BOOLEAN

PlaneSpawns(b) ==
    {S \in UpTo({At(t[1], t[2]) : t \in PlaneDraws}, MaxRocks) :
        /\ S # {}
        /\ \A a \in S : Hypot(a.x - b.ship.x, a.y - b.ship.y) > min_dist}

\* World.update in PLAYING, lines 811-854
PlaneTick ==
    /\ Ticks < MaxPlaneTicks
    /\ \E d \in PlaneMoves,
          due \in Flag(~world.ship.spawned \/ world.ship.invulnerable),
          side \in (IF world.ufo = None THEN {"none", "right", "bottom"} ELSE {"none"}),
          born \in Flag(world.black_hole = None),
          fires \in Flag(world.missiles = {}),
          cleared \in BOOLEAN,
          t \in (IF world.ufo = None \/ world.black_hole = None
                 THEN PlaneDraws ELSE {<<0, 0>>}) :
          \E b \in {Plane_hole(h, d.hole, born, t) :
                    h \in {Plane_ufo(g, d.ufo, side, t, fires) :
                    g \in {Plane_shots(f, d.shot) :
                    f \in {Plane_rocks(e, d.rock) :
                    e \in {Plane_ship(world, d.ship, due)}}}}} :
             \E touch \in PlaneTouch(b), overlap \in Flag(b.black_hole # None /\ b.ship.spawned) :
                \E c \in {Plane_swallow(k, overlap) :
                          k \in {Plane_tractor(j) :
                          j \in {Plane_contact(i, touch) :
                          i \in {Plane_bullets(b, cleared)}}}} :
                   \E S \in (IF c.asteroids = {} THEN PlaneSpawns(c) ELSE {{}}) :
                      /\ world' = Plane_wave(c, S)
                      /\ last' = <<[ticks |-> Ticks + 1, wave |-> c.asteroids = {}]>>

SpecPlane == PlaneInit /\ [][PlaneTick]_vars

\* ------------------------------------------------------------ SpecBullets
\* BulletManager.shoot and BulletManager.update (lines 523-547) with the
\* positions and velocities of the bullets.  A bullet carries its number and
\* the velocity it was made with; last is the call just made and the bullets
\* it found.
bullet_speed == 10800
nose == 36

MaxShots == 2

\* lines 525-529: the bullet of a ship at (x, y) turned to angle
nose_bullet(ship, id) ==
    [ id |-> id,
      x |-> ship.x + nose * Cos1000(ship.angle),
      y |-> ship.y - nose * Sin1000(ship.angle),
      vx |-> Scale(bullet_speed, Cos1000(ship.angle), 1000),
      vy |-> -Scale(bullet_speed, Sin1000(ship.angle), 1000),
      made |-> << Scale(bullet_speed, Cos1000(ship.angle), 1000),
                  -Scale(bullet_speed, Sin1000(ship.angle), 1000) >> ]

\* lines 543-545: b[0] += b[2] * dt * 60, dt in ms
Bullet_moved(b, dt) ==
    [b EXCEPT !.x = b.x + Scale(b.vx, dt * 6, 100), !.y = b.y + Scale(b.vy, dt * 6, 100)]

InField(b) == b.x >= 0 /\ b.x <= WIDTH /\ b.y >= 0 /\ b.y <= HEIGHT

\* BulletManager_move with bullets that wrap as the other entities do
BulletManager_move_wrapping(bullets, dt) ==
    {[Bullet_moved(b, dt) EXCEPT !.x = wrap_position(Bullet_moved(b, dt).x, 0)[1],
                                 !.y = wrap_position(0, Bullet_moved(b, dt).y)[2]] :
        b \in bullets}

\* lines 543-547
BulletManager_move(bullets, dt) ==
    {c \in {Bullet_moved(b, dt) : b \in bullets} : InField(c)}

\* the ship that fires: above the lower edge, in the middle of it and beside
\* the right edge
BulletShips ==
    [ x : {WIDTH \div 2, WIDTH - 1000}, y : {HEIGHT - 1000}, angle : {0, 90, 225, 270} ]

BulletDts == {0, 100, 1000}

BulletInit == world = [bullets |-> {}, shots |-> 0] /\ last = None

\* World.handle_input, line 770: shoot with the cooldown and the grace over
BulletShoot ==
    /\ world.shots < MaxShots
    /\ \E ship \in BulletShips :
          world' = [bullets |-> world.bullets \cup {nose_bullet(ship, world.shots + 1)},
                    shots |-> world.shots + 1]
    /\ last' = <<[op |-> "shoot", found |-> world.bullets, dt |-> 0]>>

\* World.update, line 816
BulletUpdate ==
    /\ \E dt \in BulletDts :
          /\ world' = [world EXCEPT !.bullets = BulletManager_move(world.bullets, dt)]
          /\ last' = <<[op |-> "update", found |-> world.bullets, dt |-> dt]>>

NextBullets == BulletShoot \/ BulletUpdate

SpecBullets == BulletInit /\ [][NextBullets]_vars

\* ------------------------------------------------------------ SpecRestart
\* A first session with a black hole, which gives rapid fire, and the pause
\* menu; once Restart or Quit is chosen (the cursor is left off Resume) no
\* black hole appears any more and the player does not pause again.
Restart ==
    [ dts |-> {1000},
      keys |-> {{}, {"SPACE"}}, menu_keys |-> {{"DOWN"}, {"RETURN"}},
      ufo |-> {FALSE}, missile |-> {FALSE}, bh |-> {FALSE},
      shielded |-> {FALSE}, deadly |-> {FALSE},
      max_score |-> 0, max_bullets |-> MaxBullets,
      overlap |-> FALSE, aimed |-> FALSE, swallow |-> {FALSE} ]

RestartHole == [Restart EXCEPT !.bh = BOOLEAN, !.swallow = BOOLEAN]

RestartTick == Frame(Restart, <<>>)
RestartHoleTick == world.selected_option = 0 /\ Frame(RestartHole, <<>>)
RestartStart == KeyFrame(Restart, "SPACE")
RestartPause == world.selected_option = 0 /\ KeyFrame(Restart, "p")

NextRestart == RestartTick \/ RestartHoleTick \/ RestartStart \/ RestartPause

SpecRestart == Init /\ [][NextRestart]_vars

\* ------------------------------------------------------------ SpecBanner
\* A whole wave shot down as in SpecWaves, without deaths or black holes; the
\* player pauses while the wave-cleared banner is up and works the pause menu
\* in frames of half a second.
Banner ==
    [ Waves EXCEPT !.bh = {FALSE}, !.deadly = {FALSE}, !.swallow = {FALSE},
                   !.menu_keys = {{"DOWN"}, {"RETURN"}} ]

BannerQuick == [Banner EXCEPT !.dts = {500}]

BannerTick == world.game_state # "PAUSED" /\ Frame(Banner, <<>>)
BannerStart == KeyFrame(Banner, "SPACE")
BannerPause == world.wave_cleared /\ KeyFrame(BannerQuick, "p")
BannerMenu == world.game_state = "PAUSED" /\ Frame(BannerQuick, <<>>)

NextBanner == BannerTick \/ BannerStart \/ BannerPause \/ BannerMenu

SpecBanner == Init /\ [][NextBanner]_vars

\* ------------------------------------------------------------ SpecBroad
\* The two-step bullet test of the three kinds of target on its own: the
\* distance test, then point_in_polygon on the target's polygon.  Lengths are
\* in 1/10 px here and directions in 1/1000; sqrt(d2) < r is d2 < r * r.

\* lines 26-40: the edge p1-p2 flips inside
crosses(x, y, p1, p2) ==
    /\ y > Min(p1[2], p2[2])
    /\ y <= Max(p1[2], p2[2])
    /\ x <= Max(p1[1], p2[1])
    /\ \/ p1[1] = p2[1]
       \/ IF p2[2] > p1[2]
          THEN (x - p1[1]) * (p2[2] - p1[2]) <= (y - p1[2]) * (p2[1] - p1[1])
          ELSE (x - p1[1]) * (p2[2] - p1[2]) >= (y - p1[2]) * (p2[1] - p1[1])

\* lines 26-40: the edges poly[i-1]-poly[i] and the closing edge; the first
\* round of the loop has p1 = p2 and flips nothing
point_in_polygon(x, y, poly) ==
    Cardinality({i \in 1..Len(poly) :
                    crosses(x, y, poly[i], poly[(i % Len(poly)) + 1])}) % 2 = 1

\* the square of the distance of (bx, by) from (x, y)
Dist2(bx, by, x, y) == (bx - x) * (bx - x) + (by - y) * (by - y)

Missile_length == 216
Missile_width == 72

\* lines 346-354, with (c, s) = (cos, sin) of the missile's angle
Missile_get_polygon(m) ==
    << << m.x + Scale(m.c, Missile_length, 1000), m.y + Scale(m.s, Missile_length, 1000) >>,
       << m.x - Scale(m.c, Missile_length \div 2, 1000) - Scale(m.s, Missile_width, 1000),
          m.y - Scale(m.s, Missile_length \div 2, 1000) + Scale(m.c, Missile_width, 1000) >>,
       << m.x - Scale(m.c, Missile_length \div 2, 1000) + Scale(m.s, Missile_width, 1000),
          m.y - Scale(m.s, Missile_length \div 2, 1000) - Scale(m.c, Missile_width, 1000) >> >>

MissileBroad == 180

\* line 678
Missile_near(bx, by, m) == Dist2(bx, by, m.x, m.y) < MissileBroad * MissileBroad

UFO_width == 1080
UFO_height == 360

\* (cos, sin) of pi - i * pi / 5, i = 0..5, and of -pi/2 - i * pi / 3, i = 0..3
Fifths ==
    << <<-1000, 0>>, <<-809, 588>>, <<-309, 951>>, <<309, 951>>, <<809, 588>>, <<1000, 0>> >>

Thirds == << <<0, -1000>>, <<-866, -500>>, <<-866, 500>>, <<0, 1000>> >>

\* lines 425-440
UFO_get_polygon(u) ==
    [i \in 1..6 |-> << u.x + Scale(Fifths[i][1], UFO_width \div 2, 1000),
                       u.y + Scale(Fifths[i][2], UFO_height \div 2, 1000) >>]
    \o [i \in 1..4 |-> << u.x + Scale(Thirds[i][1], UFO_height \div 2, 1000),
                          (u.y - UFO_height \div 2) + Scale(Thirds[i][2], UFO_height \div 2, 1000) >>]

UFO_RADIUS == 450

\* line 872
UFO_near(bx, by, u) == Dist2(bx, by, u.x, u.y) < UFO_RADIUS * UFO_RADIUS

\* (cos, sin) of i * 2 pi / 12, i = 0..11
Twelfths ==
    << <<1000, 0>>, <<866, 500>>, <<500, 866>>, <<0, 1000>>, <<-500, 866>>, <<-866, 500>>,
       <<-1000, 0>>, <<-866, -500>>, <<-500, -866>>, <<0, -1000>>, <<500, -866>>, <<866, -500>> >>

\* lines 135-142, with the twelve draws of 1 + variation in percent and no
\* jitter of the angles; radius in px
create_asteroid_shape(radius, percents) ==
    [i \in 1..12 |-> << Scale(Twelfths[i][1], (radius * percents[i]) \div 10, 1000),
                        Scale(Twelfths[i][2], (radius * percents[i]) \div 10, 1000) >>]

RECURSIVE SeqMax(_)
SeqMax(q) == IF Len(q) = 1 THEN q[1] ELSE Max(q[1], SeqMax(Tail(q)))

\* line 594, squared
max_radius2(shape) == SeqMax([i \in 1..Len(shape) |-> Dist2(shape[i][1], shape[i][2], 0, 0)])

\* lines 612-615, with (c, s) = (cos, sin) of the asteroid's angle
Asteroid_get_polygon(a) ==
    [i \in 1..Len(a.shape) |->
        << a.x + Scale(a.shape[i][1] * a.c - a.shape[i][2] * a.s, 1, 1000),
           a.y + Scale(a.shape[i][1] * a.s + a.shape[i][2] * a.c, 1, 1000) >>]

\* lines 625-626
Asteroid_near(bx, by, a) == Dist2(bx, by, a.x, a.y) < a.max_radius2

\* the headings and rotations: quarter turns
Quarters == { <<1000, 0>>, <<0, 1000>>, <<-1000, 0>>, <<0, -1000>> }

\* the draws of create_asteroid_shape: round, jagged, one long spike
ShapeDraws ==
    { [i \in 1..12 |-> 100],
      [i \in 1..12 |-> IF i % 2 = 0 THEN 140 ELSE 60],
      [i \in 1..12 |-> IF i = 2 THEN 160 ELSE 70] }

MaxGrid == 15

\* the bullet: up to 3 * MaxGrid px from the target's centre, on a grid of 3 px
BroadOffsets == { 30 * k : k \in -MaxGrid..MaxGrid }

BroadCentre == <<9600, 5400>>

BroadTargets ==
    { [kind |-> "missile", x |-> BroadCentre[1], y |-> BroadCentre[2], c |-> q[1], s |-> q[2]]
        : q \in Quarters }
    \cup { [kind |-> "ufo", x |-> BroadCentre[1], y |-> BroadCentre[2]] }
    \cup { [kind |-> "asteroid", x |-> BroadCentre[1], y |-> BroadCentre[2],
            c |-> q[1], s |-> q[2],
            shape |-> create_asteroid_shape(SMALL_SIZE, p),
            max_radius2 |-> max_radius2(create_asteroid_shape(SMALL_SIZE, p))]
            : q \in {<<1000, 0>>, <<0, 1000>>}, p \in ShapeDraws }

BroadInit ==
    /\ \E t \in BroadTargets : \E dx \in BroadOffsets : \E dy \in BroadOffsets :
          world = [target |-> t, bx |-> t.x + dx, by |-> t.y + dy]
    /\ last = None

Broad_near(bx, by, t) ==
    IF t.kind = "missile" THEN Missile_near(bx, by, t)
    ELSE IF t.kind = "ufo" THEN UFO_near(bx, by, t)
    ELSE Asteroid_near(bx, by, t)

Broad_polygon(t) ==
    IF t.kind = "missile" THEN Missile_get_polygon(t)
    ELSE IF t.kind = "ufo" THEN UFO_get_polygon(t)
    ELSE Asteroid_get_polygon(t)

\* the square of the distance threshold of the target
Broad_threshold2(t) ==
    IF t.kind = "missile" THEN MissileBroad * MissileBroad
    ELSE IF t.kind = "ufo" THEN UFO_RADIUS * UFO_RADIUS
    ELSE t.max_radius2

\* the square of the largest distance of a vertex of the polygon from (x, y)
Reach2(poly, x, y) == SeqMax([i \in 1..Len(poly) |-> Dist2(poly[i][1], poly[i][2], x, y)])

\* lines 622-627, 675-680, 870-874: the two tests of one bullet and one target
BroadCall ==
    /\ last = None
    /\ last' = <<[near |-> Broad_near(world.bx, world.by, world.target),
                  inside |-> point_in_polygon(world.bx, world.by, Broad_polygon(world.target)),
                  threshold2 |-> Broad_threshold2(world.target),
                  reach2 |-> Reach2(Broad_polygon(world.target), world.target.x, world.target.y)]>>
    /\ UNCHANGED world

SpecBroad == BroadInit /\ [][BroadCall]_vars

\* ------------------------------------------------------------ SpecScore
\* The frames of SpecVolley (asteroids, a UFO and its missile shot with two
\* bullets in flight) until 200 points are scored; from then on the ship dies
\* of every contact it is not shielded from, and black holes appear and take
\* the ship as soon as they can.
Hazard == [Volley EXCEPT !.deadly = {TRUE}, !.bh = BOOLEAN, !.swallow = {TRUE}]

ScoreTick == world.score < UFO_REWARD /\ Frame(Volley, <<>>)
ScoreHazardTick == world.score >= UFO_REWARD /\ Frame(Hazard, <<>>)
ScoreStart == KeyFrame(Volley, "SPACE")

NextScore == ScoreTick \/ ScoreHazardTick \/ ScoreStart

SpecScore == Init /\ [][NextScore]_vars

\* ------------------------------------------------------------ properties

\* C1: every step that takes the game state into GAME_OVER saves the high
\* score in that frame exactly when the score exceeds the high score held
\* before, and leaves high_score >= score.
C1_GameOverSavesHighScore ==
    [][ (world.game_state # "GAME_OVER" /\ world'.game_state = "GAME_OVER")
        => /\ last'.saved <=> (world'.score > world.high_score)
           /\ world'.high_score >= world'.score ]_vars

\* C2: a step from PLAYING to GAME_OVER ends with lives <= 0 and no pending
\* respawn; a step from PLAYING that ends with lives <= 0 and a respawn
\* pending does not end in GAME_OVER.
C2_GameOverOnlyWithoutPendingRespawn ==
    [][ /\ (world.game_state = "PLAYING" /\ world'.game_state = "GAME_OVER")
           => (world'.lives <= 0 /\ ~world'.ship.pending_respawn)
        /\ (world.game_state = "PLAYING" /\ world'.lives <= 0 /\ world'.ship.pending_respawn)
           => world'.game_state # "GAME_OVER" ]_vars

\* C3: a pending respawn is carried out only after respawn_delay milliseconds
\* of PLAYING time since trigger_respawn, whether or not the game was paused
\* in between.
C3_RespawnDelayIsPlayingTime ==
    last.respawn # None => last.respawn[1].played >= last.respawn[1].delay

\* C4 (as stated): after trigger_respawn(2000, 5000) at time T, in a run
\* without a pause since T, at every tick with time a since T: a < 2000 means
\* not spawned, a >= 2000 means spawned, 2000 <= a < 7000 means invulnerable,
\* and a >= 7000 means the invulnerable flag is clear.
C4_RespawnAtFixedTimes ==
    LET s == world.ship
        a == s.respawn_timer
    IN (/\ last.ticked
        /\ s.respawn_delay = DeathDelay
        /\ s.respawn_invuln_duration = DeathInvuln
        /\ last.played = a)
       => /\ a < DeathDelay => ~s.spawned
          /\ a >= DeathDelay => s.spawned
          /\ (a >= DeathDelay /\ a < DeathDelay + DeathInvuln) => s.invulnerable
          /\ a >= DeathDelay + DeathInvuln => ~s.invulnerable

\* C4 (amended): after trigger_respawn(2000, 5000) at time T the ship is not
\* spawned while the respawn is pending, and a tick leaves it pending only
\* before T + 2000; the first tick at or after T + 2000 makes it spawned and
\* invulnerable at the centre with zero velocity; from then on a tick leaves
\* it invulnerable exactly while less than 5000 ms have passed since that
\* tick.
C4_RespawnAtFirstTickAfterDelay ==
    LET s == world.ship
    IN (s.respawn_delay = DeathDelay /\ s.respawn_invuln_duration = DeathInvuln)
       => /\ s.pending_respawn => ~s.spawned
          /\ (s.pending_respawn /\ last.ticked) => s.respawn_timer < DeathDelay
          /\ (~s.pending_respawn /\ last.ticked) => s.spawned
          /\ (~s.pending_respawn /\ last.respawn # None)
             => /\ s.respawn_timer >= DeathDelay
                /\ s.spawned /\ s.invulnerable /\ s.invuln_start_time = 0
                /\ s.at_centre /\ s.vel_x = 0 /\ s.vel_y = 0
          /\ (s.spawned /\ last.ticked)
             => (s.invulnerable <=> s.invuln_start_time < DeathInvuln)

\* a respawn later than T + 2000 of a ship that had been dragged off the centre
C4_LateRespawnFromOffCentre ==
    /\ last.respawn # None
    /\ last.respawn[1].delay = DeathDelay
    /\ ~last.respawn[1].at_centre
    /\ world.ship.respawn_timer > DeathDelay
    /\ world.ship.spawned /\ world.ship.at_centre

\* C5: every bullet-asteroid hit removes the bullet and the asteroid; a Large
\* one leaves 2 Medium and 20 points, a Medium one 2 Small and 50 points, a
\* Small one nothing and 100 points.
C5_SplitAndScore ==
    \A i \in DOMAIN last.hits :
        LET h == last.hits[i]
        IN /\ h.bullets = -1
           /\ h.size = LARGE_SIZE
              => (h.large = -1 /\ h.medium = 2 /\ h.small = 0 /\ h.score = 20)
           /\ h.size = MEDIUM_SIZE
              => (h.large = 0 /\ h.medium = -1 /\ h.small = 2 /\ h.score = 50)
           /\ h.size = SMALL_SIZE
              => (h.large = 0 /\ h.medium = 0 /\ h.small = -1 /\ h.score = 100)

\* a Small asteroid shot after a Large and a Medium one
C5_SmallShot ==
    /\ \E i \in DOMAIN last.hits : last.hits[i].size = SMALL_SIZE
    /\ world.score = 20 + 50 + 100

\* C6: the asteroid that destroys the ship is removed from the asteroid
\* collection in that tick.
C6_CollidingAsteroidDestroyed ==
    \A i \in DOMAIN last.deaths :
        last.deaths[i].by = "asteroid"
        => last.deaths[i].asteroids_after = last.deaths[i].asteroids - 1

\* C7: lives decrease only through pairs evaluated with the ship spawned and
\* not invulnerable; a frame in which an asteroid, missile or UFO touches the
\* ship while it is not spawned or invulnerable destroys nothing and takes no
\* life.
C7_LivesLostOnlyWhenVulnerable ==
    [][ /\ world'.lives < world.lives
           => /\ last'.deaths # <<>>
              /\ \A i \in DOMAIN last'.deaths :
                    last'.deaths[i].spawned /\ ~last'.deaths[i].invulnerable
        /\ last'.shielded => (last'.deaths = <<>> /\ world'.lives >= world.lives) ]_vars

\* a missile touches the invulnerable ship after a life was lost
C7_ShieldedContact ==
    /\ last.shielded
    /\ world.ship.spawned /\ world.ship.invulnerable
    /\ world.missiles # <<>>
    /\ world.lives < START_LIVES

\* C8: after every frame the ship's speed is at most max_speed.
C8_SpeedWithinMax ==
    world.ship.vel_x * world.ship.vel_x + world.ship.vel_y * world.ship.vel_y
        <= max_speed * max_speed

\* C9: a black-hole-ship collision resolves only when the time since the
\* black hole's spawn is in [fade_in, fade_in + active).
C9_BlackHoleOnlyInActivePhase ==
    last.bh # None
    => LET elapsed == last.bh[1].pre.black_hole[1].spawn_time
       IN elapsed >= fade_in_duration /\ elapsed < fade_in_duration + active_duration

\* C10: right after a black-hole-ship collision resolved, the ship is pending
\* respawn with delay 0 and 10000 ms of invulnerability to come, rapid fire is
\* on for 10000 ms, there are no missiles, no UFO and no black hole, and lives
\* and score are as before the collision.
C10_BlackHoleEffect ==
    last.bh # None
    => LET pre == last.bh[1].pre
           post == last.bh[1].post
       IN /\ post.ship.pending_respawn /\ ~post.ship.spawned
          /\ post.ship.respawn_delay = 0
          /\ post.ship.respawn_invuln_duration = 10000
          /\ post.ship.rapid_fire /\ post.ship.rapid_fire_duration = 10000
          /\ post.missiles = <<>>
          /\ post.ufo = None
          /\ post.black_hole = None
          /\ post.lives = pre.lives /\ post.score = pre.score
          /\ world.lives = pre.lives /\ world.score = pre.score
          /\ world.ufo = None /\ world.black_hole = None /\ world.missiles = <<>>

\* a black hole swallows the ship while a UFO and its missile are around
C10_SwallowedWithUfoAndMissile ==
    /\ last.bh # None
    /\ last.bh[1].pre.ufo # None
    /\ last.bh[1].pre.missiles # <<>>

\* C11: within one tick's collision resolution every bullet is removed by at
\* most one pairing and only while it is in the bullet list (a bullet that the
\* asteroid pairing removed is not met again by the missile or the UFO
\* pairing), every asteroid hit removes exactly one asteroid, so the bullets
\* removed by the asteroid pairing are as many as the asteroids destroyed, and
\* no collection is left with fewer than zero members.
C11_BulletConsumedOnce ==
    /\ \A i \in 1..Len(last.shots) :
          /\ last.shots[i].listed
          /\ \A j \in 1..Len(last.shots) : last.shots[j].bullet = last.shots[i].bullet => j = i
    /\ Len(last.hits) = Cardinality({i \in 1..Len(last.shots) : last.shots[i].by = "asteroid"})
    /\ \A i \in 1..Len(last.hits) :
          /\ last.hits[i].bullets = -1
          /\ last.hits[i].large = (IF last.hits[i].size = LARGE_SIZE THEN -1 ELSE 0)
          /\ last.hits[i].medium >= (IF last.hits[i].size = MEDIUM_SIZE THEN -1 ELSE 0)
          /\ last.hits[i].small >= (IF last.hits[i].size = SMALL_SIZE THEN -1 ELSE 0)
    /\ Cardinality({i \in 1..Len(last.shots) : last.shots[i].by = "missile"}) <= 1
    /\ Cardinality({i \in 1..Len(last.shots) : last.shots[i].by = "ufo"}) <= 1
    /\ world.bullets >= 0
    /\ \A z \in Sizes : world.asteroids[z] >= 0

\* a bullet removed with an asteroid was also inside the missile or the UFO
\* while a second bullet was removed by the missile or the UFO pairing
C11_BulletInsideTwoTargets ==
    /\ last.twice
    /\ \E i \in 1..Len(last.shots) : last.shots[i].by = "asteroid"
    /\ \E i \in 1..Len(last.shots) : last.shots[i].by # "asteroid"

\* the counter went from pre to post by counting down, not below 0
CountedDown(pre, post) == (pre = 0 /\ post = 0) \/ (0 <= post /\ post < pre)

\* C12: a bullet is made only by a shot, and a shot is made only with
\* shoot_cooldown = 0, shoot_grace_timer = 0 and the ship spawned; the shot sets
\* the cooldown to 5 with rapid fire and to 15 without (in 1/100 frame: 500,
\* 1500); outside a PLAYING tick the two counters keep their values (a start
\* or restart sets the grace counter), a PLAYING tick counts them down and
\* never below 0; and a shot that follows a shot made without rapid fire
\* comes after at least 15 frame-units of PLAYING ticks.
C12_FireControl ==
    [][ /\ (world'.bullets > world.bullets => last'.fired # None)
        /\ (last'.fired # None =>
              /\ last'.fired[1].cooldown = 0
              /\ last'.fired[1].grace = 0
              /\ last'.fired[1].spawned
              /\ last'.fired[1].set =
                    (IF last'.fired[1].rapid THEN rapid_cooldown ELSE cooldown_time)
              /\ (last'.fired[1].slow => last'.fired[1].since >= cooldown_time))
        /\ world'.shoot_cooldown >= 0
        /\ world'.shoot_grace_timer >= 0
        /\ (~last'.ticked =>
              /\ world'.shoot_cooldown = world.shoot_cooldown
              /\ world'.shoot_grace_timer =
                    (IF last'.session # None THEN grace_time ELSE world.shoot_grace_timer))
        /\ (last'.ticked =>
              /\ CountedDown(IF last'.fired # None THEN last'.fired[1].set
                             ELSE world.shoot_cooldown,
                             world'.shoot_cooldown)
              /\ CountedDown(IF last'.session # None THEN grace_time
                             ELSE world.shoot_grace_timer,
                             world'.shoot_grace_timer)) ]_vars

\* a shot without rapid fire made as soon as the cooldown of the shot before
\* it, also without rapid fire, had run out over several ticks, and a shot
\* with rapid fire
C12_SlowShotAfterSlowShot ==
    /\ last.fired # None
    /\ last.fired[1].slow
    /\ ~last.fired[1].rapid
    /\ last.fired[1].since = cooldown_time
    /\ world.shoot_cooldown = cooldown_time - 600

C15_StartWaveCount ==
    last # None =>
      LET n == last[1].wave_count
          added == world.asteroids[LARGE_SIZE] - last[1].asteroids[LARGE_SIZE]
      IN /\ 10 * added <= 13 * (3 + n)
         /\ 13 * (3 + n) < 10 * (added + 1)
         /\ n = 1 => added = 5
         /\ n = 4 => added = 9
         /\ world.asteroids[MEDIUM_SIZE] = last[1].asteroids[MEDIUM_SIZE]
         /\ world.asteroids[SMALL_SIZE] = last[1].asteroids[SMALL_SIZE]

\* wave 4 started on a list that held asteroids of every size
C15_FourthWave ==
    /\ last # None
    /\ last[1].wave_count = 4
    /\ \A z \in Sizes : last[1].asteroids[z] > 0
    /\ world.asteroids[LARGE_SIZE] = last[1].asteroids[LARGE_SIZE] + 9

\* C14: a PLAYING tick raises wave_count by exactly 1 if the asteroid
\* collection is empty after collision resolution and leaves it otherwise;
\* when it is empty the tick ends with the ship pending respawn (delay 2000,
\* invulnerability 5000), no bullets, missiles, explosions, UFO or black hole,
\* the floor((3 + wave_count) * 1.3) Large asteroids of the new wave and the
\* banner flag set; so no PLAYING tick ends with an empty asteroid collection.
C14_WaveCleared ==
    last.ticked =>
      /\ last.waved # None
      /\ Count(world.asteroids) > 0
      /\ ~last.waved[1].empty => world.wave_count = last.waved[1].wave_count
      /\ last.waved[1].empty =>
            /\ world.wave_count = last.waved[1].wave_count + 1
            /\ world.ship.pending_respawn /\ ~world.ship.spawned
            /\ world.ship.respawn_timer = 0
            /\ world.ship.respawn_delay = DeathDelay
            /\ world.ship.respawn_invuln_duration = DeathInvuln
            /\ world.bullets = 0
            /\ world.missiles = <<>>
            /\ ~world.explosions
            /\ world.ufo = None
            /\ world.black_hole = None
            /\ world.asteroids[MEDIUM_SIZE] = 0 /\ world.asteroids[SMALL_SIZE] = 0
            /\ 10 * world.asteroids[LARGE_SIZE] <= 13 * (3 + world.wave_count)
            /\ 13 * (3 + world.wave_count) < 10 * (world.asteroids[LARGE_SIZE] + 1)
            /\ world.wave_cleared

\* a bullet took the last asteroid of wave 1 and the tick went on to wave 2
C14_SecondWave ==
    /\ last.ticked
    /\ last.waved[1].empty
    /\ last.hits # <<>>
    /\ world.wave_count = 2
    /\ world.game_state = "PLAYING"

\* C19: with frames following one another and no pause or restart, a PLAYING
\* game whose lives are 0 or less sooner or later is in GAME_OVER, also when
\* a wave is cleared or a black hole takes the ship on the way.
C19_GameOverEventually ==
    (world.game_state = "PLAYING" /\ world.lives <= 0) ~> (world.game_state = "GAME_OVER")

\* the last asteroid of the wave was shot while the ship had no lives left
\* and its respawn was pending
C19_WaveClearedWithoutLives ==
    /\ world.game_state = "PLAYING"
    /\ world.lives <= 0
    /\ last.ticked /\ last.waved[1].empty
    /\ world.ship.pending_respawn

\* the simulation: what World.update works on, without the clock readings
Simulation(w) ==
    [ ship |-> [f \in {"at_centre", "angle", "vel_x", "vel_y", "spawned", "invulnerable",
                       "rapid_fire", "thrusting", "pending_respawn", "respawn_delay",
                       "respawn_invuln_duration", "invuln_duration", "rapid_fire_duration"}
                  |-> w.ship[f]],
      bullets |-> w.bullets,
      asteroids |-> w.asteroids,
      explosions |-> w.explosions,
      missiles |-> [i \in 1..Len(w.missiles) |-> w.missiles[i].active],
      ufo |-> w.ufo,
      black_hole |-> IF w.black_hole = None THEN None ELSE <<w.black_hole[1].state>>,
      shoot_cooldown |-> w.shoot_cooldown,
      shoot_grace_timer |-> w.shoot_grace_timer,
      score |-> w.score, lives |-> w.lives, wave_count |-> w.wave_count ]

\* C16: a frame that begins and ends in PAUSED (likewise in MENU, in
\* GAME_OVER) runs no tick and leaves the simulation as it was: the ship's
\* position, velocity and flags, bullets, asteroids, explosions, missiles,
\* UFO, black hole, the two fire counters, score, lives and wave_count.
C16_FrozenOutsidePlay ==
    [][ (world.game_state \in {"PAUSED", "MENU", "GAME_OVER"}
            /\ world'.game_state = world.game_state)
        => (~last'.ticked /\ Simulation(world') = Simulation(world)) ]_vars

\* paused for two whole frames or more while a respawn was due
C16_PausedWithRespawnDue ==
    /\ world.game_state = "PAUSED"
    /\ ~last.ticked
    /\ world.ship.pending_respawn
    /\ world.ship.respawn_timer >= world.ship.respawn_delay + 2000

\* C17: game_state only ever changes from MENU to PLAYING, between PLAYING
\* and PAUSED, from PAUSED to MENU, from PLAYING to GAME_OVER and from
\* GAME_OVER to PLAYING; GAME_OVER is left only by a restart, and every change
\* from MENU or GAME_OVER to PLAYING is a start of a session.
C17_TransitionsAllowed ==
    /\ last.moves \subseteq { <<"MENU", "PLAYING">>, <<"PLAYING", "PAUSED">>,
                              <<"PAUSED", "PLAYING">>, <<"PAUSED", "MENU">>,
                              <<"PLAYING", "GAME_OVER">>, <<"GAME_OVER", "PLAYING">> }
    /\ (\E m \in last.moves : m[1] \in {"MENU", "GAME_OVER"}) => last.session # None

\* the p key resumed a paused game and the tick of the same frame ended it
C17_ResumedIntoGameOver ==
    last.moves = {<<"PAUSED", "PLAYING">>, <<"PLAYING", "GAME_OVER">>}

C20_TurnBounded ==
    last # None =>
      LET pre == last[1].missile
          post == world.missile
      IN /\ 1000 * (post.angle - pre.angle) <= MISSILE_TURN_RATE * last[1].dt * 60
         /\ 1000 * (pre.angle - post.angle) <= MISSILE_TURN_RATE * last[1].dt * 60
         /\ (~pre.active \/ pre.spawn_time >= MISSILE_LIFETIME_MS) =>
               /\ post.angle = pre.angle
               /\ post.x = pre.x
               /\ post.y = pre.y

\* a missile at the left edge turned by the whole limit of a 50 ms frame
C20_FullTurnAtEdge ==
    /\ last # None
    /\ last[1].missile.active
    /\ last[1].missile.spawn_time < MISSILE_LIFETIME_MS
    /\ last[1].missile.x = 0
    /\ last[1].dt = 50
    /\ world.missile.angle = last[1].missile.angle - 1500

\* C21: for whole coordinates (x, y), negative ones too, and every whole k,
\* wrap_position(x + k * W, y + k * H) = wrap_position(x, y), and the result
\* lies in [0, W) x [0, H).
C21_WrapPeriodic ==
    last # None =>
      /\ world.there = world.here
      /\ 0 <= world.here[1] /\ world.here[1] < WIDTH
      /\ 0 <= world.here[2] /\ world.here[2] < HEIGHT

\* a point left of and above the screen, moved back by two screens
C21_NegativeMovedBack ==
    /\ last # None
    /\ last[1].x < 0 /\ last[1].y < 0
    /\ last[1].k = -2
    /\ world.here = <<last[1].x + WIDTH, last[1].y + HEIGHT>>

\* C22: load_high_score never fails; it returns 0 when there is no file and
\* when the file is unreadable or corrupt, and the stored value when the file
\* is valid.
C22_LoadNeverFails ==
    last # None =>
      /\ world.raised = None
      /\ last[1] = None => world.value = <<0>>
      /\ (last[1] # None /\ last[1][1].json # "object") => world.value = <<0>>
      /\ (last[1] # None /\ last[1][1].json = "object" /\ last[1][1].high_score # None)
            => world.value = last[1][1].high_score

\* C23 (as stated): a PLAYING tick that ends with a UFO present and the
\* spawned ship within its detection radius has set the ship's velocity to
\* zero and moved the ship off its place, invulnerable or not.
C23_PulledEvenInvulnerable ==
    (last.ticked /\ world.ufo # None /\ world.ship.spawned /\ last.near)
        => (world.ship.vel_x = 0 /\ world.ship.vel_y = 0 /\ ~world.ship.at_centre)

\* C23 (amended): a PLAYING tick that ends with a UFO present and the
\* spawned, not invulnerable ship within its detection radius has set the
\* ship's velocity to zero and moved the ship off its place.
C23_PulledWhenVulnerable ==
    (last.ticked /\ world.ufo # None /\ world.ship.spawned /\ last.near
        /\ ~world.ship.invulnerable)
        => (world.ship.vel_x = 0 /\ world.ship.vel_y = 0 /\ ~world.ship.at_centre)

\* a vulnerable ship was pulled off the centre by the UFO
C23_PulledOffCentre ==
    /\ last.ticked /\ world.ufo # None /\ world.ship.spawned /\ last.near
    /\ ~world.ship.invulnerable /\ ~world.ship.at_centre

\* C24 (as stated): in every reachable state an invulnerable ship is spawned.
C24_InvulnerableIsSpawned == world.ship.invulnerable => world.ship.spawned

\* C24 (amended): in every reachable state an invulnerable ship is spawned
\* or waits for its respawn; trigger_respawn leaves the flag of an
\* invulnerable ship set until the respawn stamps it again.
C24_InvulnerableSpawnedOrPending ==
    world.ship.invulnerable => (world.ship.spawned \/ world.ship.pending_respawn)

\* the black hole swallowed an invulnerable ship: the flag outlives the ship
C24_SwallowedInvulnerable ==
    /\ last.bh # None /\ last.bh[1].pre.ship.invulnerable
    /\ world.ship.invulnerable /\ ~world.ship.spawned /\ world.ship.pending_respawn

\* C25: at the end of every PLAYING tick the ship, every asteroid (those of a
\* new wave too), the UFO and the black hole are in [0, W) x [0, H), and
\* every missile is in [0, W] x [0, H].
C25_AllOnThePlane ==
    last # None =>
        /\ world.ship.x \in 0..(WIDTH - 1) /\ world.ship.y \in 0..(HEIGHT - 1)
        /\ \A a \in world.asteroids : a.x \in 0..(WIDTH - 1) /\ a.y \in 0..(HEIGHT - 1)
        /\ world.ufo # None =>
              (world.ufo[1].x \in 0..(WIDTH - 1) /\ world.ufo[1].y \in 0..(HEIGHT - 1))
        /\ world.black_hole # None =>
              (world.black_hole[1].x \in 0..(WIDTH - 1)
               /\ world.black_hole[1].y \in 0..(HEIGHT - 1))
        /\ \A m \in world.missiles : m.x \in 0..WIDTH /\ m.y \in 0..HEIGHT

\* C26: a UFO is created with health 5; a bullet found inside it is removed
\* and takes exactly 1 of its health; at most one bullet hits the UFO in a
\* tick; the hit that takes the health to 0 removes the UFO and adds 200 to
\* the score, any other hit leaves the score alone; a UFO that exists between
\* ticks has a health of 1 to 5.
C26_UfoHealth ==
    /\ world.ufo # None => world.ufo[1].health \in 1..5
    /\ last.ufo.born # None => last.ufo.born[1] = 5
    /\ Cardinality({i \in 1..Len(last.shots) : last.shots[i].by = "ufo"})
          = (IF last.ufo.shot = None THEN 0 ELSE 1)
    /\ last.ufo.shot # None =>
          LET h == last.ufo.shot[1]
          IN /\ h.bullets = -1
             /\ h.health > 1 => (h.left = <<h.health - 1>> /\ h.score = 0)
             /\ h.health = 1 => (h.left = None /\ h.score = 200)

\* the fifth hit removed the UFO while an asteroid was shot in the same tick
C26_FifthHit ==
    /\ last.ufo.shot # None /\ last.ufo.shot[1].health = 1 /\ world.ufo = None
    /\ last.hits # <<>>

\* C27: after every BulletManager.update each bullet left is in
\* [0, W] x [0, H] and has the velocity it was made with; a bullet whose
\* position leaves that rectangle, or that was made outside it at the ship's
\* nose, is gone after that update, and no bullet comes back.
C27_BulletsInField ==
    (last # None /\ last[1].op = "update") =>
        /\ \A c \in world.bullets :
              /\ InField(c)
              /\ <<c.vx, c.vy>> = c.made
              /\ \E b \in last[1].found : b.id = c.id
        /\ \A b \in last[1].found :
              (~InField(b) \/ ~InField(Bullet_moved(b, last[1].dt)))
                 => \A c \in world.bullets : c.id # b.id

\* a bullet made beyond the right edge was removed by the update that followed
C27_MadeOutside ==
    /\ last # None /\ last[1].op = "update"
    /\ \E b \in last[1].found : b.x > WIDTH /\ \A c \in world.bullets : c.id # b.id

\* C28: in every reachable state 0 <= lives <= 3 and the ship is not spawned
\* and vulnerable with no life left; a tick takes at most one life, also when
\* an asteroid, a missile and the UFO are on the ship at once.
C28_LivesBounded ==
    [][ /\ world.lives \in 0..3 /\ world'.lives \in 0..3
        /\ ~(world'.lives = 0 /\ world'.ship.spawned /\ ~world'.ship.invulnerable)
        /\ world'.lives >= world.lives - 1
        /\ Len(last'.deaths) <= 1 ]_vars

\* an asteroid, a missile and the UFO were on the vulnerable ship at once and
\* took the last life
C28_PiledOnLastLife ==
    /\ last.pile /\ Len(last.deaths) = 1 /\ world.lives = 0

\* C29: the ship is never both spawned and pending respawn, and in every
\* PLAYING state exactly one of the two holds.
C29_SpawnedOrPending ==
    /\ ~(world.ship.spawned /\ world.ship.pending_respawn)
    /\ world.game_state = "PLAYING" => (world.ship.spawned # world.ship.pending_respawn)

\* the ship waits for its respawn in PLAYING after it was destroyed
C29_PendingAfterDeath ==
    /\ world.game_state = "PLAYING" /\ last.deaths # <<>>
    /\ world.ship.pending_respawn /\ ~world.ship.spawned

\* C30: a frame that begins in PLAYING and processes the p key hands a PAUSED
\* game to World.update, whatever keys are held: the frame takes no
\* simulation step and ends PAUSED.
C30_PauseStopsTheFrame ==
    [][ (world.game_state = "PLAYING" /\ <<"PLAYING", "PAUSED">> \in last'.moves)
            => (~last'.ticked /\ world'.game_state = "PAUSED") ]_vars

\* C31: a session just begun by a start or a restart has ship.rapid_fire
\* false, and in a session begun from the pause menu's Restart or Quit in
\* which no black hole appears every shot (the first one too) sets the
\* cooldown to 15 frames.
C31_NoBuffCarried ==
    /\ (last.session # None => ~last.session[1].after.ship.rapid_fire)
    /\ (last.fired # None /\ world.selected_option # 0 =>
          last.fired[1].set = cooldown_time)

\* C32: whenever wave_cleared is set in the PLAYING state wave_count is at
\* least 2 (the banner shows a level of at least 1), and a session just begun
\* by a start or a restart does not have wave_cleared set.
C32_BannerOfAClearedWave ==
    /\ (world.game_state = "PLAYING" /\ world.wave_cleared => world.wave_count >= 2)
    /\ (last.session # None => ~last.session[1].after.wave_cleared)

\* C33: for every kind of target, the threshold of the distance test is at
\* least the largest distance of a vertex of the target's polygon from the
\* target's centre, and a bullet that point_in_polygon finds inside the
\* polygon, off the circle of that largest distance, passes the distance test.
C33_BroadPhaseConservative ==
    last # None =>
      /\ last[1].threshold2 >= last[1].reach2
      /\ (/\ last[1].inside
          /\ Dist2(world.bx, world.by, world.target.x, world.target.y) # last[1].reach2
          => last[1].near)

\* the award the claim names for an asteroid of class size
AsteroidAward(size) ==
    IF size = LARGE_SIZE THEN 20 ELSE IF size = MEDIUM_SIZE THEN 50 ELSE 100

RECURSIVE HitAwards(_)
HitAwards(hits) ==
    IF hits = <<>> THEN 0 ELSE AsteroidAward(Head(hits).size) + HitAwards(Tail(hits))

\* the awards of the targets the frame with log l destroyed
Awarded(l) ==
    HitAwards(l.hits)
    + 500 * Cardinality({i \in DOMAIN l.shots : l.shots[i].by = "missile"})
    + (IF l.ufo.shot # None /\ l.ufo.shot[1].left = None THEN 200 ELSE 0)

====
